---- MODULE Spec2Model ----
(***************************************************************************)
(* Trajectory playback and coordinate synchronisation of the AirSim        *)
(* visualisation scripts (src/visualization/scripts) and of the            *)
(* single-drone trajectory runner (src/PythonClient/airsim_single_agent).  *)
(*                                                                         *)
(* Positions are triples <<x, y, z>> of integers (metres); the Python      *)
(* floats are modelled by exact integer arithmetic.  A frame of the        *)
(* Timeline is a function from the keys it holds ("defender", "attacker",  *)
(* "base") to positions; a key that is absent from a frame is absent from  *)
(* the function's DOMAIN, and reading it is Python's KeyError.             *)
(*                                                                         *)
(* Specifications:                                                         *)
(*   Spec           one run of visualize_episode, call by call, every      *)
(*                  simulator call succeeding, raising an error or being   *)
(*                  interrupted by the operator                            *)
(*   SpecPath       path construction of visualize_episode and of          *)
(*                  visualize_episode_with_fbx on drawn Timelines          *)
(*   SpecVelocity   the velocities the two scripts command at dispatch     *)
(*   SpecTransform  transform_position applied to drawn inputs             *)
(*   SpecLive       Spec with weak fairness on the steps that return      *)
(*   SpecAuto       auto_configure_from_metadata on drawn recordings       *)
(*   SpecFbx        one run of visualize_episode_with_fbx, call by call    *)
(*   SpecTimeline   convert_waypoints_to_episode, load_episode and         *)
(*                  get_frame_timing on drawn waypoint files               *)
(*   SpecLabels     the run of Spec on the three-frame scenario, with the  *)
(*                  printed result of each text label kept                 *)
(*   SpecTrajectory one run of main of run_trajectory_auto.py              *)
(*   SpecRunner     move_to_frame and reset of a MultiAgentRunner          *)
(*   SpecAdaptive   the adaptive velocities of visualize_episode_with_fbx  *)
(*                  for every list of vehicle names                        *)
(***************************************************************************)
EXTENDS Integers, Sequences, FiniteSets, TLC

VARIABLES
    pc,          \* position of the modelled call
    config,      \* VisualizationConfig: SCALE_FACTOR, INVERT_Z, Z_OFFSET
    tp_pos,      \* transform_position: argument pos
    tp_ret,      \* transform_position: returned tuple (<<>> before the call)
    frames,      \* episode_data['frames']
    start_frame, \* argument start_frame
    end_frame,   \* argument end_frame: None or <<n>>
    actual,      \* def_actual / att_actual: pose last read, per vehicle
    path,        \* defender_path / attacker_path (flight_paths in the fbx script)
    path_visual, \* defender_path_visual / attacker_path_visual (paths in the fbx script)
    base_path,   \* base_scaled as a one-point list (base_path in the fbx script)
    settings,    \* settings["Vehicles"]: X, Y, Z written by update_settings_with_frame_0
    exc,         \* the last exception raised: its type and the step that raised it
    playback_speed, \* argument playback_speed, a rational <<numerator, denominator>>
    velocities,  \* velocity passed to moveOnPathAsync per vehicle, as rationals
    k,           \* index into Vehicles (or Markers) of the next call of a per-vehicle sequence
    cmds,        \* the simulator commands that succeeded so far, in order: <<op, vehicle>>
    iteration,   \* iteration of the monitoring loop
    trajectory,  \* defender_trajectory / attacker_trajectory: the poses recorded per tick
    report,      \* what the run has printed about its progress and outcome, in order
    metadata,    \* episode_data['metadata']: coordinate_system label, vehicle_names
    episode_given,   \* auto_configure_from_metadata: whether episode_data was passed
    sample_z_values, \* auto_configure_from_metadata: the vertical values it sampled
    caller,      \* the main() that called the playback run
    skip_takeoff,    \* argument skip_takeoff
    fbx_object_name, \* visualize_episode_with_fbx: the spawned base object, None or <<name>>
    waypoint_data,   \* convert_waypoints_to_episode: the content of the input file
    frame_idx,   \* get_frame_timing: argument frame_idx
    wait,        \* get_frame_timing: returned wait, a rational (<<>> before the call)
    trajectory_data, \* TrajectoryRunner: the loaded trajectory file
    positions_log,   \* TrajectoryRunner: one entry per waypoint reached
    has_collided,    \* TrajectoryRunner: collision_info.has_collided as last read
    frame_count,     \* MultiAgentRunner: frames processed
    base_position    \* MultiAgentRunner: None or <<position>>

transformVars == <<tp_pos, tp_ret>>
inputVars     == <<frames, start_frame, end_frame>>
pathVars      == <<actual, path, path_visual, base_path, settings, exc>>
velocityVars  == <<playback_speed, velocities>>
runVars       == <<k, cmds, iteration, trajectory, report>>
callVars      == <<metadata, episode_given, sample_z_values, caller, skip_takeoff, fbx_object_name>>
timelineVars  == <<waypoint_data, frame_idx, wait>>
runnerVars    == <<trajectory_data, positions_log, has_collided, frame_count, base_position>>
vars == <<pc, config, timelineVars, runnerVars, transformVars, callVars, inputVars, pathVars, velocityVars, runVars>>

(***************************************************************************)
(* Bounds of the drawn inputs.                                             *)
(***************************************************************************)
MaxCoord  == 2      \* coordinates of drawn positions are in -1..MaxCoord
MaxScale  == 2      \* SCALE_FACTOR is drawn from 1..MaxScale
MaxOffset == 1      \* Z_OFFSET is drawn from -1..MaxOffset

Coords   == -1..MaxCoord
Points   == {<<x, y, z>> : x \in Coords, y \in Coords, z \in Coords}
Scales   == 1..MaxScale
Offsets  == -1..MaxOffset
Configs  == [SCALE_FACTOR : Scales, INVERT_Z : BOOLEAN, Z_OFFSET : Offsets]

(***************************************************************************)
(* Vectors, vehicles and the values a specification leaves unused.         *)
(***************************************************************************)
VAdd(a, b)   == <<a[1] + b[1], a[2] + b[2], a[3] + b[3]>>
VSub(a, b)   == <<a[1] - b[1], a[2] - b[2], a[3] - b[3]>>
VScale(a, s) == <<a[1] * s, a[2] * s, a[3] * s>>

Vehicles == <<"Defender", "Attacker">>
VehicleSet == {"Defender", "Attacker"}
KeyOf(v) == IF v = "Defender" THEN "defender" ELSE "attacker"

None == <<>>                       \* Python's None, for end_frame
NoPaths == [v \in VehicleSet |-> <<>>]
Origin == <<0, 0, 0>>

\* No exception so far; an exception is its Python type and the position of
\* the step that raised it.
NoExc == [kind |-> "none", at |-> "none"]
Raised(e) == [kind |-> e, at |-> pc]

\* Before any call of the converter or of get_frame_timing.
NoTimelineCall == waypoint_data = <<>> /\ frame_idx = 0 /\ wait = <<>>
\* Before any call on a TrajectoryRunner or a MultiAgentRunner.
NoRunner ==
    /\ trajectory_data = <<>> /\ positions_log = <<>> /\ has_collided = FALSE
    /\ frame_count = 0 /\ base_position = <<>>
NoTransformCall == tp_pos = Origin /\ tp_ret = <<>>
NoEpisode ==
    /\ frames = <<>> /\ start_frame = 0 /\ end_frame = None
    /\ actual = [v \in VehicleSet |-> Origin]
    /\ path = NoPaths /\ path_visual = NoPaths /\ base_path = <<>>
    /\ settings = <<>> /\ exc = NoExc
NoVelocity == playback_speed = <<1, 1>> /\ velocities = <<>>
NoRun ==
    /\ k = 1 /\ cmds = <<>> /\ iteration = 0
    /\ trajectory = NoPaths /\ report = <<>>
\* The metadata the converter writes for a two-drone recording.
DefaultMetadata == [coordinate_system |-> "NED", vehicle_names |-> Vehicles]
NoAutoConfigure ==
    metadata = DefaultMetadata /\ episode_given = FALSE /\ sample_z_values = <<>>
NoCaller == caller = "none" /\ skip_takeoff = FALSE /\ fbx_object_name = None

(***************************************************************************)
(* config.py: transform_position                                           *)
(***************************************************************************)
\* A transform that adds the offset before the inversion (the offset is
\* negated with z): the slip the order of the three statements excludes.
transform_position_offset_first(pos, cfg) ==
    LET z_scaled == pos[3] * cfg.SCALE_FACTOR + cfg.Z_OFFSET
    IN  <<pos[1] * cfg.SCALE_FACTOR,
          pos[2] * cfg.SCALE_FACTOR,
          IF cfg.INVERT_Z THEN -z_scaled ELSE z_scaled>>

transform_position(pos, cfg) ==
    LET x == pos[1]
        y == pos[2]
        z == pos[3]
        x_airsim == x * cfg.SCALE_FACTOR
        y_airsim == y * cfg.SCALE_FACTOR
        z_scaled == z * cfg.SCALE_FACTOR
        z_inverted == IF cfg.INVERT_Z THEN -z_scaled ELSE z_scaled
        z_airsim == z_inverted + cfg.Z_OFFSET
    IN  <<x_airsim, y_airsim, z_airsim>>

(***************************************************************************)
(* SpecTransform: one call of transform_position on drawn inputs.          *)
(***************************************************************************)
InitTransform ==
    /\ pc = "tp_call"
    /\ config \in Configs
    /\ tp_pos \in Points
    /\ tp_ret = <<>>
    /\ NoTimelineCall
    /\ NoRunner
    /\ NoEpisode
    /\ NoVelocity
    /\ NoRun
    /\ NoAutoConfigure
    /\ NoCaller

CallTransformPosition_applied_twice ==
    /\ pc = "tp_call"
    /\ tp_ret' = transform_position(transform_position(tp_pos, config), config)
    /\ pc' = "tp_done"
    /\ UNCHANGED <<config, timelineVars, runnerVars, tp_pos, callVars, inputVars, pathVars, velocityVars, runVars>>

CallTransformPosition ==
    /\ pc = "tp_call"
    /\ tp_ret' = transform_position(tp_pos, config)
    /\ pc' = "tp_done"
    /\ UNCHANGED <<config, timelineVars, runnerVars, tp_pos, callVars, inputVars, pathVars, velocityVars, runVars>>

NextTransform == CallTransformPosition

SpecTransform == InitTransform /\ [][NextTransform]_vars

\* C9: transform_position returns (x*scale, y*scale, z') where z' is z times
\* scale, negated when INVERT_Z, plus Z_OFFSET: the offset enters z' unscaled
\* and with its own sign, and x and y carry neither sign change nor offset.
C9_TransformOrder ==
    pc = "tp_done" =>
        /\ Len(tp_ret) = 3
        /\ tp_ret[1] = tp_pos[1] * config.SCALE_FACTOR
        /\ tp_ret[2] = tp_pos[2] * config.SCALE_FACTOR
        /\ tp_ret[3] - config.Z_OFFSET =
              (IF config.INVERT_Z THEN -1 ELSE 1) * (tp_pos[3] * config.SCALE_FACTOR)

\* C9 witness: a call with scale 2, inversion on, a non-zero offset and a
\* non-zero z has returned.
C9_Witness ==
    /\ pc = "tp_done"
    /\ config.SCALE_FACTOR = 2
    /\ config.INVERT_Z
    /\ config.Z_OFFSET = 1
    /\ tp_pos = <<1, -1, 2>>
    /\ tp_ret = <<2, -2, -3>>

MaxFactor == 3      \* scale multipliers k are drawn from 1..MaxFactor

IdentityConfig == [SCALE_FACTOR |-> 1, INVERT_Z |-> FALSE, Z_OFFSET |-> 0]

\* C24: with Z_OFFSET = 0, transform_position with scale k*s returns k times
\* what it returned with scale s, for both values of INVERT_Z; with scale 1,
\* no offset and no inversion it returns the position it was given, and so
\* does every further application.
C24_LinearAndIdentity ==
    pc = "tp_done" =>
        /\ config.Z_OFFSET = 0 =>
              \A kf \in 1..MaxFactor :
                  transform_position(tp_pos,
                      [config EXCEPT !.SCALE_FACTOR = kf * config.SCALE_FACTOR])
                    = VScale(tp_ret, kf)
        /\ config = IdentityConfig =>
              /\ tp_ret = tp_pos
              /\ transform_position(tp_ret, config) = tp_ret

C24_Witness ==
    /\ pc = "tp_done"
    /\ config = [SCALE_FACTOR |-> 2, INVERT_Z |-> TRUE, Z_OFFSET |-> 0]
    /\ tp_pos = <<1, -1, 2>>
    /\ tp_ret = <<2, -2, -4>>
    /\ transform_position(tp_pos, [config EXCEPT !.SCALE_FACTOR = 6]) = <<6, -6, -12>>

(***************************************************************************)
(* Path construction.                                                      *)
(***************************************************************************)
\* Python's seq[a:b] for a sequence of length n: a negative index counts from
\* the end, and both indices are clamped into 0..n.
PyIndex(i, n) ==
    IF i < 0 THEN (IF i + n < 0 THEN 0 ELSE i + n)
             ELSE (IF i > n THEN n ELSE i)

PySlice(seq, a, b) ==
    LET lo == PyIndex(a, Len(seq))
        hi == PyIndex(b, Len(seq))
    IN  IF lo >= hi THEN <<>> ELSE SubSeq(seq, lo + 1, hi)

\* visualize_episode.py:191-192 (visualize_episode_with_car.py:158-159)
ClampEnd(e, fr) ==
    IF e = None THEN Len(fr)
    ELSE IF e[1] > Len(fr) THEN Len(fr) ELSE e[1]

\* episode_frames = frames[start_frame:end_frame]
EpisodeFrames(fr, s, e) == PySlice(fr, s, ClampEnd(e, fr))

HasAgents(f) == "defender" \in DOMAIN f /\ "attacker" \in DOMAIN f

\* The least element of a non-empty set of integers, 0 for the empty set.
FirstOf(S) == IF S = {} THEN 0 ELSE CHOOSE i \in S : \A j \in S : i <= j

\* X and Y scaled, Z as recorded.
VisualPoint(p, S) == <<p[1] * S, p[2] * S, p[3]>>

\* defender_path / attacker_path after the loop iterations 2..n (1-based) of
\* visualize_episode.py:273-299: the list starts as [actual] and every
\* iteration appends the previous waypoint plus the scaled frame delta.
RECURSIVE RelativePath(_, _, _, _, _)
RelativePath(ef, key, start, S, n) ==
    IF n < 2 THEN <<start>>
    ELSE LET p     == RelativePath(ef, key, start, S, n - 1)
             prev  == p[Len(p)]
             delta == VScale(VSub(ef[n][key], ef[n - 1][key]), S)
         IN  Append(p, VAdd(prev, delta))

\* visualize_episode.py:266-301.  The iteration that reads a key a frame does
\* not hold raises KeyError before it appends anything.
FlightPaths(ef, act, S) ==
    LET bad == FirstOf({i \in 2..Len(ef) : ~HasAgents(ef[i]) \/ ~HasAgents(ef[i - 1])})
        n   == IF bad = 0 THEN Len(ef) ELSE bad - 1
    IN  [exc  |-> IF bad = 0 THEN "none" ELSE "KeyError",
         path |-> [v \in VehicleSet |-> RelativePath(ef, KeyOf(v), act[v], S, n)]]

\* visualize_episode.py:303-322
VisualPaths(ef, S) ==
    LET bad == FirstOf({i \in 1..Len(ef) : ~HasAgents(ef[i])})
        n   == IF bad = 0 THEN Len(ef) ELSE bad - 1
    IN  [exc  |-> IF bad = 0 THEN "none" ELSE "KeyError",
         path_visual |-> [v \in VehicleSet |->
                            [i \in 1..n |-> VisualPoint(ef[i][KeyOf(v)], S)]]]

\* visualize_episode.py:328-333
BaseScaled(ef, S) ==
    IF Len(ef) = 0 THEN [exc |-> "IndexError", base_path |-> <<>>]
    ELSE IF "base" \notin DOMAIN ef[1] THEN [exc |-> "KeyError", base_path |-> <<>>]
    ELSE [exc |-> "none", base_path |-> <<VisualPoint(ef[1]["base"], S)>>]

\* visualize_episode.py:266-333 as one computation: the first exception ends it.
BuildEpisodePaths(fr, s, e, cfg, act) ==
    LET ef == EpisodeFrames(fr, s, e)
        fp == FlightPaths(ef, act, cfg.SCALE_FACTOR)
        vp == VisualPaths(ef, cfg.SCALE_FACTOR)
        bs == BaseScaled(ef, cfg.SCALE_FACTOR)
    IN  IF fp.exc # "none"
          THEN [exc |-> fp.exc, path |-> fp.path, path_visual |-> NoPaths, base_path |-> <<>>]
        ELSE IF vp.exc # "none"
          THEN [exc |-> vp.exc, path |-> fp.path, path_visual |-> vp.path_visual,
                base_path |-> <<>>]
        ELSE [exc |-> bs.exc, path |-> fp.path, path_visual |-> vp.path_visual,
              base_path |-> bs.base_path]

\* The base waypoints of the frames that hold a base (visualize_episode_with_car.py:248-254).
RECURSIVE FbxBasePath(_, _, _)
FbxBasePath(ef, S, n) ==
    IF n = 0 THEN <<>>
    ELSE LET rest == FbxBasePath(ef, S, n - 1)
         IN  IF "base" \in DOMAIN ef[n]
               THEN Append(rest, VisualPoint(ef[n]["base"], S))
               ELSE rest

\* visualize_episode_with_car.py:222-298: paths (X and Y scaled) per frame, then
\* flight_paths = paths shifted by (observed pose - first waypoint).  A frame
\* without the defender or attacker key raises KeyError; an empty range raises
\* IndexError at paths['Defender'][0].
BuildFbxPaths(fr, s, e, cfg, act) ==
    LET ef  == EpisodeFrames(fr, s, e)
        S   == cfg.SCALE_FACTOR
        bad == FirstOf({i \in 1..Len(ef) : ~HasAgents(ef[i])})
        n   == IF bad = 0 THEN Len(ef) ELSE bad - 1
        \* the defender waypoint of the failing frame is appended before the
        \* attacker key is read
        nd  == IF bad # 0 /\ "defender" \in DOMAIN ef[bad] THEN bad ELSE n
        paths == [v \in VehicleSet |->
                    [i \in 1..(IF v = "Defender" THEN nd ELSE n) |->
                        VisualPoint(ef[i][KeyOf(v)], S)]]
    IN  IF bad # 0
          THEN [exc |-> "KeyError", path |-> NoPaths, path_visual |-> paths,
                base_path |-> FbxBasePath(ef, S, n)]
        ELSE IF Len(ef) = 0
          THEN [exc |-> "IndexError", path |-> NoPaths, path_visual |-> paths,
                base_path |-> <<>>]
        ELSE [exc |-> "none",
              path |-> [v \in VehicleSet |->
                          [i \in 1..n |-> VAdd(paths[v][i], VSub(act[v], paths[v][1]))]],
              path_visual |-> paths,
              base_path |-> FbxBasePath(ef, S, n)]

\* update_settings_with_frame_0 (visualize_episode.py:87-145): the spawn
\* position of each vehicle frame 0 holds, through transform_position.
UpdateSettings(fr, cfg) ==
    IF Len(fr) = 0 THEN <<>>
    ELSE [v \in {w \in VehicleSet : KeyOf(w) \in DOMAIN fr[1]} |->
            transform_position(fr[1][KeyOf(v)], cfg)]

(***************************************************************************)
(* SpecPath: the two path builders and the settings update on drawn        *)
(* Timelines, frame ranges, configs and observed start poses.              *)
(***************************************************************************)
MaxFrames == 3      \* drawn Timelines hold at most MaxFrames frames

BasePoint == <<2, 2, 1>>
\* Two frames that hold every key, and three that lack one key each.
FrameAtStart == [defender |-> <<0, 0, 0>>, attacker |-> <<0, 0, 0>>, base |-> BasePoint]
FrameMoved   == [defender |-> <<1, 0, 2>>, attacker |-> <<-1, 2, 1>>, base |-> BasePoint]
FrameNoAttacker == [defender |-> <<1, 0, 2>>, base |-> BasePoint]
FrameNoDefender == [attacker |-> <<-1, 2, 1>>, base |-> BasePoint]
FrameNoBase     == [defender |-> <<2, 0, 2>>, attacker |-> <<0, 0, 0>>]
PathFrames == {FrameAtStart, FrameMoved, FrameNoAttacker, FrameNoDefender, FrameNoBase}

RECURSIVE TimelinesOfLen(_)
TimelinesOfLen(n) ==
    IF n = 0 THEN {<<>>}
    ELSE {Append(t, f) : t \in TimelinesOfLen(n - 1), f \in PathFrames}
\* load_episode reads frames[-1], so a Timeline that reaches playback holds a frame.
PathTimelines == UNION {TimelinesOfLen(n) : n \in 1..MaxFrames}

\* auto_configure_from_metadata leaves Z_OFFSET at 0.0 before every playback run.
PathConfigs == [SCALE_FACTOR : Scales, INVERT_Z : BOOLEAN, Z_OFFSET : {0}]
PathStarts  == {0, 1}
PathEnds    == {None, <<0>>, <<2>>, <<MaxFrames + 1>>}
\* Observed start poses: the spawn pose as recorded, or displaced from it.
ObservedPoses == {[v \in VehicleSet |-> Origin],
                  [v \in VehicleSet |-> IF v = "Defender" THEN <<1, 0, -2>> ELSE <<0, 3, -2>>]}

InitPath ==
    /\ pc = "pb_settings"
    /\ config \in PathConfigs
    /\ frames \in PathTimelines
    /\ start_frame \in PathStarts
    /\ end_frame \in PathEnds
    /\ actual \in ObservedPoses
    /\ path = NoPaths /\ path_visual = NoPaths /\ base_path = <<>>
    /\ settings = <<>> /\ exc = NoExc
    /\ NoTransformCall
    /\ NoRunner
    /\ NoTimelineCall
    /\ NoVelocity
    /\ NoRun
    /\ NoAutoConfigure
    /\ NoCaller

PathUpdateSettings ==
    /\ pc = "pb_settings"
    /\ settings' = UpdateSettings(frames, config)
    /\ pc' = "pb_build"
    /\ UNCHANGED <<config, timelineVars, runnerVars, transformVars, callVars, inputVars, actual, path, path_visual, base_path, exc,
                   velocityVars, runVars>>

StoreBuilt(r) ==
    /\ path' = r.path
    /\ path_visual' = r.path_visual
    /\ base_path' = r.base_path
    /\ exc' = IF r.exc = "none" THEN exc ELSE Raised(r.exc)
    /\ end_frame' = <<ClampEnd(end_frame, frames)>>
    /\ UNCHANGED <<config, timelineVars, runnerVars, transformVars, callVars, frames, start_frame, actual, settings, velocityVars,
                   runVars>>

PathBuildEpisode ==
    /\ pc = "pb_build"
    /\ StoreBuilt(BuildEpisodePaths(frames, start_frame, end_frame, config, actual))
    /\ pc' = "pb_episode"

PathBuildFbx ==
    /\ pc = "pb_build"
    /\ StoreBuilt(BuildFbxPaths(frames, start_frame, end_frame, config, actual))
    /\ pc' = "pb_fbx"

NextPath == PathUpdateSettings \/ PathBuildEpisode \/ PathBuildFbx

SpecPath == InitPath /\ [][NextPath]_vars

PathBuilt == pc \in {"pb_episode", "pb_fbx"}
\* The frames of the played range, from the clamped end_frame.
PlayedFrames == PySlice(frames, start_frame, end_frame[1])

\* The number of frames in the played range: end_frame - start_frame after
\* the clamp, none when the range is empty.
NumPlayed ==
    IF end_frame[1] - start_frame > 0 THEN end_frame[1] - start_frame ELSE 0

\* apply(frame[i]) - apply(frame[i-1]) for the agent of vehicle v.
AppliedDelta(ef, v, i) ==
    VSub(transform_position(ef[i][KeyOf(v)], config),
         transform_position(ef[i - 1][KeyOf(v)], config))

\* C6: displacement invariance under drift correction: once the flight paths
\* are built, for every vehicle and every i >= 1 the step path[i] - path[i-1]
\* equals apply(frame[start+i]) - apply(frame[start+i-1]) on all three axes,
\* whatever the scale, the vertical inversion and the vertical offset.
C6_DisplacementInvariance ==
    (PathBuilt /\ exc.kind = "none") =>
        \A v \in VehicleSet : \A i \in 2..Len(path[v]) :
            VSub(path[v][i], path[v][i - 1]) = AppliedDelta(PlayedFrames, v, i)

\* C7: after path construction over a Timeline whose frames hold both agents,
\* every vehicle's path, of either strategy (the drift-corrected flight path
\* and the absolute path), has as many waypoints as the played range has
\* frames, for every start_frame and end_frame, the empty range included.
C7_PathLengthIsRange ==
    (PathBuilt /\ \A i \in 1..Len(frames) : HasAgents(frames[i])) =>
        \A v \in VehicleSet :
            /\ Len(path[v]) = NumPlayed
            /\ Len(path_visual[v]) = NumPlayed

\* A played range whose first frame holds every key and one of whose later
\* frames lacks an agent's key.
GapInRange ==
    /\ Len(PlayedFrames) >= 2
    /\ HasAgents(PlayedFrames[1])
    /\ \A i \in 1..Len(PlayedFrames) : "base" \in DOMAIN PlayedFrames[i]
    /\ \E i \in 2..Len(PlayedFrames) : ~HasAgents(PlayedFrames[i])

\* C8: held-pose gap-fill: when an agent's key is absent from an intermediate
\* frame of the played range, path building raises nothing, the frame repeats
\* the agent's previous waypoint, and both paths have the length of the range.
C8_HeldPoseGapFill ==
    (PathBuilt /\ GapInRange) =>
        /\ exc.kind = "none"
        /\ \A v \in VehicleSet :
              /\ Len(path[v]) = Len(PlayedFrames)
              /\ \A i \in 2..Len(path[v]) :
                    KeyOf(v) \notin DOMAIN PlayedFrames[i] => path[v][i] = path[v][i - 1]

\* C10: one Transform for every position of a run: the spawn positions in the
\* settings, the flight-path steps, the trail (absolute) waypoints and the
\* base position all agree with transform_position under the run's config.
C10_TransformEverywhere ==
    (PathBuilt /\ exc.kind = "none") =>
        /\ \A v \in DOMAIN settings :
              settings[v] = transform_position(frames[1][KeyOf(v)], config)
        /\ \A v \in VehicleSet :
              /\ \A i \in 2..Len(path[v]) :
                    VSub(path[v][i], path[v][i - 1]) = AppliedDelta(PlayedFrames, v, i)
              /\ \A i \in 1..Len(path_visual[v]) :
                    path_visual[v][i] = transform_position(PlayedFrames[i][KeyOf(v)], config)
        /\ \A i \in 1..Len(base_path) :
              "base" \in DOMAIN PlayedFrames[i] =>
                  base_path[i] = transform_position(PlayedFrames[i]["base"], config)

\* C23: the final waypoint of the flight path of visualize_episode, the
\* arrival target, is the observed start pose plus apply(last frame of the
\* range) - apply(first frame of the range), for each agent.
C23_FinalWaypointIsTarget ==
    (pc = "pb_episode" /\ exc.kind = "none") =>
        \A v \in VehicleSet :
            path[v][Len(path[v])] =
                VAdd(actual[v],
                     VSub(transform_position(PlayedFrames[Len(PlayedFrames)][KeyOf(v)], config),
                          transform_position(PlayedFrames[1][KeyOf(v)], config)))

\* The flight paths the other script builds from the same Timeline, range,
\* config and observed start poses.
OtherScriptPaths ==
    IF pc = "pb_episode"
      THEN BuildFbxPaths(frames, start_frame, end_frame, config, actual)
      ELSE BuildEpisodePaths(frames, start_frame, end_frame, config, actual)

\* C31: for the same Timeline, frame range, scale and observed start poses
\* the flight path of visualize_episode (accumulated deltas) and that of
\* visualize_episode_with_fbx (recorded path shifted by a constant offset)
\* hold the same waypoints for each agent.
C31_DriftCorrectionsAgree ==
    (PathBuilt /\ exc.kind = "none" /\ OtherScriptPaths.exc = "none") =>
        \A v \in VehicleSet : path[v] = OtherScriptPaths.path[v]

(***************************************************************************)
(* Velocities commanded at dispatch.  Speeds, durations and velocities are *)
(* exact rationals <<numerator, denominator>> with a positive denominator. *)
(***************************************************************************)
QMul(a, b) == <<a[1] * b[1], a[2] * b[2]>>
QDiv(a, b) == <<a[1] * b[2], a[2] * b[1]>>      \* b # 0
QEq(a, b)  == a[1] * b[2] = b[1] * a[2]
QLess(a, b) == a[1] * b[2] < b[1] * a[2]
QInt(n)    == <<n, 1>>

\* The square root of a perfect square.
Sqrt(n) == CHOOSE r \in 0..n : r * r = n

\* calculate_path_length (visualize_episode_with_car.py:391-400)
RECURSIVE SegmentSum(_, _)
SegmentSum(p, n) ==
    IF n < 2 THEN 0
    ELSE LET d == VSub(p[n], p[n - 1])
         IN  SegmentSum(p, n - 1) + Sqrt(d[1] * d[1] + d[2] * d[2] + d[3] * d[3])
calculate_path_length(p) == IF Len(p) < 2 THEN 0 ELSE SegmentSum(p, Len(p))

MaxOf(S) == CHOOSE m \in S : \A x \in S : x <= m

\* base_velocity = 0.1 / playback_speed (visualize_episode_with_car.py:409)
FbxBaseVelocity(speed) == QDiv(<<1, 10>>, speed)

\* visualize_episode_with_car.py:402-423, for the vehicles of vehicle_names.
FbxVelocities(paths, speed) ==
    LET path_lengths == [v \in VehicleSet |-> calculate_path_length(paths[v])]
        base_velocity == FbxBaseVelocity(speed)
        max_path_length == MaxOf({path_lengths[v] : v \in VehicleSet})
        estimated_duration == QDiv(QInt(max_path_length), base_velocity)
        computed == [v \in VehicleSet |->
                        IF path_lengths[v] > 0
                          THEN QDiv(QInt(path_lengths[v]), estimated_duration)
                          ELSE base_velocity]
    IN  [v \in VehicleSet |->
            IF v = "Defender" THEN QMul(computed[v], <<11, 10>>) ELSE computed[v]]

\* visualize_episode.py:444-445 and 467, 477: one velocity,
\* base_velocity * SCALE_FACTOR, for both vehicles.
EpisodeVelocities(cfg) ==
    LET base_velocity == <<1, 4>>
        flight_velocity == QMul(base_velocity, QInt(cfg.SCALE_FACTOR))
    IN  [v \in VehicleSet |-> flight_velocity]

(***************************************************************************)
(* SpecVelocity: the velocity computation of both scripts on drawn paths.  *)
(***************************************************************************)
MaxWaypoints == 3   \* drawn paths hold at most MaxWaypoints waypoints

\* Steps between consecutive waypoints, each of integer length: 0, 5, 10, 2.
VelocitySteps == {<<0, 0, 0>>, <<3, 4, 0>>, <<10, 0, 0>>, <<0, 0, -2>>}
RECURSIVE PolylinesOfLen(_)
PolylinesOfLen(n) ==
    IF n = 1 THEN {<<Origin>>}
    ELSE {Append(p, VAdd(p[Len(p)], d)) : p \in PolylinesOfLen(n - 1), d \in VelocitySteps}
Polylines == UNION {PolylinesOfLen(n) : n \in 1..MaxWaypoints}
PlaybackSpeeds == {<<1, 2>>, <<1, 1>>, <<2, 1>>}

InitVelocity ==
    /\ pc = "vel_input"
    /\ config \in PathConfigs
    /\ path_visual \in [VehicleSet -> Polylines]
    /\ path = path_visual
    /\ playback_speed \in PlaybackSpeeds
    /\ velocities = <<>>
    /\ frames = <<>> /\ start_frame = 0 /\ end_frame = None
    /\ actual = [v \in VehicleSet |-> Origin]
    /\ base_path = <<>> /\ settings = <<>> /\ exc = NoExc
    /\ NoTransformCall
    /\ NoRunner
    /\ NoTimelineCall
    /\ NoRun
    /\ NoAutoConfigure
    /\ NoCaller

VelocityFbx ==
    /\ pc = "vel_input"
    /\ velocities' = FbxVelocities(path_visual, playback_speed)
    /\ pc' = "vel_fbx"
    /\ UNCHANGED <<config, timelineVars, runnerVars, transformVars, callVars, inputVars, pathVars, playback_speed, runVars>>

VelocityEpisode ==
    /\ pc = "vel_input"
    /\ velocities' = EpisodeVelocities(config)
    /\ pc' = "vel_episode"
    /\ UNCHANGED <<config, timelineVars, runnerVars, transformVars, callVars, inputVars, pathVars, playback_speed, runVars>>

NextVelocity == VelocityFbx \/ VelocityEpisode

SpecVelocity == InitVelocity /\ [][NextVelocity]_vars

\* The length of the path a vehicle is sent along.
FlownLength(v) == calculate_path_length(path[v])

\* C5: equal-arrival-time policy: when every vehicle's path has a positive
\* length, the commanded velocities give every pair of vehicles the same
\* predicted flight time, length(path_a)/V_a = length(path_b)/V_b.
C5_EqualArrivalTime ==
    (pc \in {"vel_fbx", "vel_episode"} /\ \A v \in VehicleSet : FlownLength(v) > 0) =>
        \A a \in VehicleSet : \A b \in VehicleSet :
            QEq(QDiv(QInt(FlownLength(a)), velocities[a]),
                QDiv(QInt(FlownLength(b)), velocities[b]))

\* The velocities the same script commands for the same paths and config at
\* playback speed 1.
VelocitiesAtUnitSpeed ==
    IF pc = "vel_fbx" THEN FbxVelocities(path_visual, <<1, 1>>)
                      ELSE EpisodeVelocities(config)

\* C21: for fixed paths the velocity commanded to each vehicle at playback
\* speed s is s times the velocity commanded at playback speed 1.
C21_VelocityScalesWithSpeed ==
    (pc \in {"vel_fbx", "vel_episode"}) =>
        \A v \in VehicleSet :
            QEq(velocities[v], QMul(playback_speed, VelocitiesAtUnitSpeed[v]))

(***************************************************************************)
(* Spec: one run of visualize_episode (visualize_episode.py:171-603), one  *)
(* action per simulator call or computation.  A simulator call succeeds    *)
(* ("ok"), raises a simulator error ("error") or is cut short by the       *)
(* operator's Ctrl+C ("interrupt").  pc = "returned" is the function       *)
(* returning to its caller, pc = "raised" an exception leaving it.         *)
(***************************************************************************)
MaxIterations == 3  \* max_iterations, 10000 in the source, scaled down

Outcomes == {"ok", "error", "interrupt"}
ExcOf(outcome) == IF outcome = "interrupt" THEN "KeyboardInterrupt" ELSE "RPCError"

\* An exception raised outside every try statement leaves the function.
Propagate(e) == pc' = "raised" /\ exc' = Raised(e)
\* An exception raised in the body of the try statement of lines 251-585.
Caught(e) ==
    /\ pc' = IF e = "KeyboardInterrupt" THEN "except_interrupt" ELSE "except_error"
    /\ exc' = Raised(e)
\* An exception raised in the try statement of the finally clause (589-603).
LandingFailed(e) == pc' = "reset" /\ exc' = Raised(e)

\* One call of a sequence that makes the same call for Defender, then for
\* Attacker: it succeeds and the sequence moves on, or it raises.
SimCall(op, next, Handle(_)) ==
    \E outcome \in Outcomes :
        IF outcome = "ok"
          THEN /\ cmds' = Append(cmds, <<op, Vehicles[k]>>)
               /\ exc' = exc
               /\ IF k < Len(Vehicles)
                    THEN k' = k + 1 /\ pc' = pc
                    ELSE k' = 1 /\ pc' = next
          ELSE /\ Handle(ExcOf(outcome))
               /\ cmds' = cmds
               /\ k' = 1

\* What the calls before path construction leave alone.
KeepEpisode ==
    UNCHANGED <<config, timelineVars, runnerVars, transformVars, callVars, inputVars, actual, path, path_visual, base_path,
                settings, velocityVars>>
KeepLoop == UNCHANGED <<iteration, trajectory>>

\* The E2E scenario of the specification: A moves 10 m along x in its last
\* step, B is stationary.
ScenarioTimeline ==
    << [defender |-> <<0, 0, 0>>, attacker |-> <<0, 0, 0>>, base |-> <<0, 0, 0>>],
       [defender |-> <<0, 0, 0>>, attacker |-> <<0, 0, 0>>, base |-> <<0, 0, 0>>],
       [defender |-> <<10, 0, 0>>, attacker |-> <<0, 0, 0>>, base |-> <<0, 0, 0>>] >>
RunTimelines == {ScenarioTimeline,
                 <<FrameAtStart, FrameMoved>>,
                 <<FrameAtStart, FrameNoAttacker>>}
RunConfigs == {[SCALE_FACTOR |-> 1, INVERT_Z |-> FALSE, Z_OFFSET |-> 0],
               [SCALE_FACTOR |-> MaxScale, INVERT_Z |-> TRUE, Z_OFFSET |-> 0]}
RunEnds == {None, <<0>>}

\* The two main() functions that call visualize_episode.
Callers == {"visualize_episode", "visualize_waypoints"}

Init ==
    /\ pc = "entry"
    /\ config \in RunConfigs
    /\ frames \in RunTimelines
    /\ start_frame = 0
    /\ end_frame \in RunEnds
    /\ actual = [v \in VehicleSet |-> Origin]
    /\ path = NoPaths /\ path_visual = NoPaths /\ base_path = <<>>
    /\ settings = <<>> /\ exc = NoExc
    /\ NoTransformCall
    /\ NoRunner
    /\ NoTimelineCall
    /\ NoVelocity
    /\ NoRun
    /\ NoAutoConfigure
    /\ caller \in Callers /\ skip_takeoff = FALSE /\ fbx_object_name = None

\* visualize_episode.py:190-199
ClampRange ==
    /\ pc = "entry"
    /\ end_frame' = <<ClampEnd(end_frame, frames)>>
    /\ pc' = "connect"
    /\ UNCHANGED <<config, timelineVars, runnerVars, transformVars, callVars, frames, start_frame, pathVars, velocityVars, runVars>>

\* visualize_episode.py:203-204
Connect ==
    /\ pc = "connect"
    /\ \E outcome \in Outcomes :
          IF outcome = "ok" THEN pc' = "enable" /\ exc' = exc
                            ELSE Propagate(ExcOf(outcome))
    /\ KeepEpisode /\ UNCHANGED runVars

\* visualize_episode.py:209-210
EnableApiControl ==
    /\ pc = "enable"
    /\ SimCall("enableApiControl", "arm", Propagate)
    /\ KeepEpisode /\ KeepLoop /\ UNCHANGED report

\* visualize_episode.py:214-215
ArmDisarm ==
    /\ pc = "arm"
    /\ SimCall("arm", "flush", Propagate)
    /\ KeepEpisode /\ KeepLoop /\ UNCHANGED report

\* visualize_episode.py:220-224: the bare except swallows every outcome.
FlushMarkers ==
    /\ pc = "flush"
    /\ \E outcome \in Outcomes : pc' = "takeoff"
    /\ KeepEpisode /\ UNCHANGED <<exc, runVars>>

\* visualize_episode.py:228-229
TakeoffAsync ==
    /\ pc = "takeoff"
    /\ SimCall("takeoff", "takeoff_join", Propagate)
    /\ KeepEpisode /\ KeepLoop /\ UNCHANGED report

\* visualize_episode.py:230-231
JoinTakeoff ==
    /\ pc = "takeoff_join"
    /\ SimCall("join_takeoff", "stabilize", Propagate)
    /\ KeepEpisode /\ KeepLoop /\ UNCHANGED report

\* visualize_episode.py:233: time.sleep(3), which Ctrl+C cuts short.
Stabilize ==
    /\ pc = "stabilize"
    /\ \E outcome \in {"ok", "interrupt"} :
          IF outcome = "ok" THEN pc' = "get_state" /\ exc' = exc
                            ELSE Propagate(ExcOf(outcome))
    /\ KeepEpisode /\ UNCHANGED runVars

\* visualize_episode.py:241-249: the observed start poses.
GetStartState ==
    /\ pc = "get_state"
    /\ \E outcome \in Outcomes :
          IF outcome = "ok"
            THEN /\ actual' \in ObservedPoses
                 /\ pc' = "build_paths"
                 /\ exc' = exc
            ELSE /\ Propagate(ExcOf(outcome))
                 /\ actual' = actual
    /\ UNCHANGED <<config, timelineVars, runnerVars, transformVars, callVars, inputVars, path, path_visual, base_path, settings,
                   velocityVars, runVars>>

\* A Python exception of a computation in the try body: it goes to the
\* "except Exception" clause.
AfterStep(e, next) ==
    IF e = "none" THEN pc' = next /\ exc' = exc ELSE Caught(e)

\* visualize_episode.py:266-301
BuildFlightPaths_from_recording ==
    /\ pc = "build_paths"
    /\ LET ef == EpisodeFrames(frames, start_frame, end_frame)
           recorded == [v \in VehicleSet |->
                           IF Len(ef) > 0 /\ KeyOf(v) \in DOMAIN ef[1]
                             THEN transform_position(ef[1][KeyOf(v)], config)
                             ELSE actual[v]]
           r == FlightPaths(ef, recorded, config.SCALE_FACTOR)
       IN  path' = r.path /\ AfterStep(r.exc, "build_visual")
    /\ UNCHANGED <<config, timelineVars, runnerVars, transformVars, callVars, inputVars, actual, path_visual, base_path, settings,
                   velocityVars, runVars>>

BuildFlightPaths ==
    /\ pc = "build_paths"
    /\ LET r == FlightPaths(EpisodeFrames(frames, start_frame, end_frame), actual,
                            config.SCALE_FACTOR)
       IN  path' = r.path /\ AfterStep(r.exc, "build_visual")
    /\ UNCHANGED <<config, timelineVars, runnerVars, transformVars, callVars, inputVars, actual, path_visual, base_path, settings,
                   velocityVars, runVars>>

\* visualize_episode.py:303-322
BuildVisualPaths ==
    /\ pc = "build_visual"
    /\ LET r == VisualPaths(EpisodeFrames(frames, start_frame, end_frame),
                            config.SCALE_FACTOR)
       IN  path_visual' = r.path_visual /\ AfterStep(r.exc, "base_scaled")
    /\ UNCHANGED <<config, timelineVars, runnerVars, transformVars, callVars, inputVars, actual, path, base_path, settings,
                   velocityVars, runVars>>

\* visualize_episode.py:328-333
ComputeBaseScaled ==
    /\ pc = "base_scaled"
    /\ LET r == BaseScaled(EpisodeFrames(frames, start_frame, end_frame),
                           config.SCALE_FACTOR)
       IN  base_path' = r.base_path /\ AfterStep(r.exc, "plot_points")
    /\ UNCHANGED <<config, timelineVars, runnerVars, transformVars, callVars, inputVars, actual, path, path_visual, settings,
                   velocityVars, runVars>>

Markers == <<"BASE", "DEFENDER", "ATTACKER">>

\* visualize_episode.py:336-342, 362-368, 388-394: simPlotPoints of marker k.
PlotPoints ==
    /\ pc = "plot_points"
    /\ \E outcome \in Outcomes :
          IF outcome = "ok" THEN pc' = "plot_strings" /\ exc' = exc /\ k' = k
                            ELSE Caught(ExcOf(outcome)) /\ k' = 1
    /\ KeepEpisode /\ KeepLoop /\ UNCHANGED <<cmds, report>>

\* visualize_episode.py:343-353, 369-379, 395-405: simPlotStrings of marker k
\* inside "except Exception": an error is swallowed, Ctrl+C is not.
PlotStrings ==
    /\ pc = "plot_strings"
    /\ \E outcome \in Outcomes :
          IF outcome = "interrupt"
            THEN Caught(ExcOf(outcome)) /\ k' = 1
            ELSE /\ exc' = exc
                 /\ IF k < Len(Markers) THEN k' = k + 1 /\ pc' = "plot_points"
                                        ELSE k' = 1 /\ pc' = "plot_lines"
    /\ KeepEpisode /\ KeepLoop /\ UNCHANGED <<cmds, report>>

\* visualize_episode.py:412-435: simPlotLineStrip per vehicle inside
\* "except Exception".
PlotLineStrip ==
    /\ pc = "plot_lines"
    /\ \E outcome \in Outcomes :
          IF outcome = "interrupt"
            THEN Caught(ExcOf(outcome)) /\ k' = 1
            ELSE /\ exc' = exc
                 /\ IF k < Len(Vehicles) THEN k' = k + 1 /\ pc' = pc
                                         ELSE k' = 1 /\ pc' = "velocity"
    /\ KeepEpisode /\ KeepLoop /\ UNCHANGED <<cmds, report>>

\* visualize_episode.py:444-461: expected_time divides by flight_velocity.
ComputeVelocity ==
    /\ pc = "velocity"
    /\ LET v == EpisodeVelocities(config)
       IN  IF v["Defender"][1] = 0
             THEN Caught("ZeroDivisionError") /\ velocities' = velocities
             ELSE velocities' = v /\ pc' = "dispatch" /\ exc' = exc
    /\ UNCHANGED <<config, timelineVars, runnerVars, transformVars, callVars, inputVars, actual, path, path_visual, base_path,
                   settings, playback_speed, runVars>>

\* A dispatch that starts polling as soon as the first vehicle has its path.
MoveOnPathAsync_polls_early ==
    /\ pc = "dispatch"
    /\ cmds' = Append(cmds, <<"moveOnPath", Vehicles[k]>>)
    /\ pc' = "monitor"
    /\ KeepEpisode /\ KeepLoop /\ UNCHANGED <<exc, k, report>>

\* visualize_episode.py:465-483
MoveOnPathAsync ==
    /\ pc = "dispatch"
    /\ SimCall("moveOnPath", "monitor", Caught)
    /\ KeepEpisode /\ KeepLoop /\ UNCHANGED report

\* final_def / final_att (visualize_episode.py:492-493)
FinalOf(v) == path[v][Len(path[v])]

\* distance(pos, target) < 1.0 (visualize_episode.py:496-499, 543), on the
\* squares: the distance is not negative.
Dist2(a, b) ==
    LET d == VSub(a, b) IN d[1] * d[1] + d[2] * d[2] + d[3] * d[3]
ArrivalThreshold == 1
Near(pos, target) == Dist2(pos, target) < ArrivalThreshold * ArrivalThreshold

\* The poses the simulator may report for a vehicle at a tick: at its target,
\* or exactly one metre from it.
TickPoses == [VehicleSet -> {"at", "off"}]
PoseOf(v, where) == IF where = "at" THEN FinalOf(v) ELSE VAdd(FinalOf(v), <<1, 0, 0>>)

\* A loop that reports the arrival and goes on polling.
MonitorTick_keeps_polling ==
    /\ pc = "monitor"
    /\ iteration < MaxIterations
    /\ \E where \in TickPoses :
          LET pose == [v \in VehicleSet |-> PoseOf(v, where[v])]
          IN  /\ actual' = pose
              /\ trajectory' = [v \in VehicleSet |-> Append(trajectory[v], pose[v])]
              /\ report' = IF \A v \in VehicleSet : Near(pose[v], FinalOf(v))
                             THEN Append(report, "near final positions") ELSE report
              /\ iteration' = iteration + 1
    /\ UNCHANGED <<pc, config, timelineVars, runnerVars, transformVars, callVars, inputVars, path, path_visual,
                   base_path, settings, exc, velocityVars, k, cmds>>

\* visualize_episode.py:507-557, one iteration: both poses are read and
\* recorded, the arrival test is made, and the loop breaks or sleeps.
MonitorTick ==
    /\ pc = "monitor"
    /\ iteration < MaxIterations
    /\ \E outcome \in Outcomes :
          IF outcome = "ok"
            THEN \E where \in TickPoses :
                   LET pose == [v \in VehicleSet |-> PoseOf(v, where[v])]
                   IN  /\ actual' = pose
                       /\ trajectory' = [v \in VehicleSet |-> Append(trajectory[v], pose[v])]
                       /\ exc' = exc
                       /\ IF \A v \in VehicleSet : Near(pose[v], FinalOf(v))
                            THEN /\ report' = Append(report, "near final positions")
                                 /\ pc' = "join_path"
                                 /\ iteration' = iteration
                            ELSE /\ report' = report
                                 /\ pc' = pc
                                 /\ iteration' = iteration + 1
            ELSE /\ Caught(ExcOf(outcome))
                 /\ UNCHANGED <<actual, trajectory, report, iteration>>
    /\ UNCHANGED <<config, timelineVars, runnerVars, transformVars, callVars, inputVars, path, path_visual, base_path, settings,
                   velocityVars, k, cmds>>

\* visualize_episode.py:507: the loop condition fails at the ceiling.
MonitorCeiling ==
    /\ pc = "monitor"
    /\ iteration >= MaxIterations
    /\ pc' = "join_path"
    /\ KeepEpisode /\ UNCHANGED <<exc, runVars>>

\* visualize_episode.py:560-563
JoinPath ==
    /\ pc = "join_path"
    /\ SimCall("join_path", "cancel", Caught)
    /\ report' = IF pc' = "cancel" THEN Append(report, "flight paths completed") ELSE report
    /\ KeepEpisode /\ KeepLoop

\* visualize_episode.py:560-561: join() takes no timeout and moveOnPathAsync
\* was given no timeout_sec, so it returns only when the simulator reports the
\* command of Vehicles[k] as finished; here the simulator never does.
JoinPathBlocks ==
    /\ pc = "join_path"
    /\ pc' = "join_wait"
    /\ KeepEpisode /\ UNCHANGED <<exc, runVars>>

\* The blocked join ends only when the operator presses Ctrl+C.
JoinWaitInterrupted ==
    /\ pc = "join_wait"
    /\ Caught("KeyboardInterrupt")
    /\ KeepEpisode /\ UNCHANGED runVars

\* visualize_episode.py:566-567
CancelLastTask ==
    /\ pc = "cancel"
    /\ SimCall("cancel", "settle", Caught)
    /\ KeepEpisode /\ KeepLoop /\ UNCHANGED report

\* visualize_episode.py:568: time.sleep(0.5)
Settle ==
    /\ pc = "settle"
    /\ \E outcome \in {"ok", "interrupt"} :
          IF outcome = "ok" THEN pc' = "complete" /\ exc' = exc
                            ELSE Caught(ExcOf(outcome))
    /\ KeepEpisode /\ UNCHANGED runVars

\* visualize_episode.py:571-577: "PLAYBACK COMPLETE" is printed, then
\* time.sleep(2).
PlaybackComplete ==
    /\ pc = "complete"
    /\ report' = Append(report, "PLAYBACK COMPLETE")
    /\ \E outcome \in {"ok", "interrupt"} :
          IF outcome = "ok" THEN pc' = "land" /\ exc' = exc
                            ELSE Caught(ExcOf(outcome))
    /\ KeepEpisode /\ KeepLoop /\ UNCHANGED <<k, cmds>>

\* visualize_episode.py:579-580
ExceptKeyboardInterrupt ==
    /\ pc = "except_interrupt"
    /\ report' = Append(report, "interrupted by user")
    /\ pc' = "land"
    /\ KeepEpisode /\ KeepLoop /\ UNCHANGED <<exc, k, cmds>>

\* visualize_episode.py:582-585
ExceptException ==
    /\ pc = "except_error"
    /\ report' = Append(report, "ERROR during visualization")
    /\ pc' = "land"
    /\ KeepEpisode /\ KeepLoop /\ UNCHANGED <<exc, k, cmds>>

\* visualize_episode.py:591-592
LandAsync ==
    /\ pc = "land"
    /\ SimCall("land", "land_join", LandingFailed)
    /\ KeepEpisode /\ KeepLoop /\ UNCHANGED report

\* visualize_episode.py:593-594
JoinLand ==
    /\ pc = "land_join"
    /\ SimCall("join_land", "disarm", LandingFailed)
    /\ KeepEpisode /\ KeepLoop /\ UNCHANGED report

\* visualize_episode.py:596-597
Disarm ==
    /\ pc = "disarm"
    /\ SimCall("disarm", "release", LandingFailed)
    /\ KeepEpisode /\ KeepLoop /\ UNCHANGED report

\* visualize_episode.py:598-600
ReleaseControl ==
    /\ pc = "release"
    /\ SimCall("release", "returned", LandingFailed)
    /\ report' = IF pc' = "returned" THEN Append(report, "Landed and disarmed") ELSE report
    /\ KeepEpisode /\ KeepLoop

\* visualize_episode.py:601-603: the bare except prints and resets the
\* simulator; an exception of reset() leaves the function.
Reset ==
    /\ pc = "reset"
    /\ report' = Append(report, "Could not land properly")
    /\ \E outcome \in Outcomes :
          IF outcome = "ok"
            THEN /\ cmds' = Append(cmds, <<"reset", "all">>)
                 /\ pc' = "returned"
                 /\ exc' = exc
            ELSE /\ Propagate(ExcOf(outcome))
                 /\ cmds' = cmds
    /\ KeepEpisode /\ KeepLoop /\ UNCHANGED k

\* visualize_episode.py:716-725 and visualize_waypoints.py:214-223: the call
\* returned, and main prints its own completion message.
MainReportComplete ==
    /\ pc = "returned"
    /\ report' = Append(report, "Visualization complete!")
    /\ pc' = "main_done"
    /\ KeepEpisode /\ KeepLoop /\ UNCHANGED <<exc, k, cmds>>

\* visualize_waypoints.py:228-233: main catches what the call raised.
MainExcept ==
    /\ pc = "raised"
    /\ caller = "visualize_waypoints"
    /\ report' = Append(report, IF exc.kind = "KeyboardInterrupt"
                                  THEN "main: interrupted by user" ELSE "main: ERROR")
    /\ pc' = "main_done"
    /\ KeepEpisode /\ KeepLoop /\ UNCHANGED <<exc, k, cmds>>

\* visualize_episode.py:716-723: the call is in no try statement, the
\* exception leaves main.
MainPropagate ==
    /\ pc = "raised"
    /\ caller = "visualize_episode"
    /\ pc' = "main_raised"
    /\ KeepEpisode /\ UNCHANGED <<exc, runVars>>

\* Every step of the run but the drawing of a text label.
NextButLabels ==
    \/ ClampRange \/ Connect \/ EnableApiControl \/ ArmDisarm \/ FlushMarkers
    \/ TakeoffAsync \/ JoinTakeoff \/ Stabilize \/ GetStartState
    \/ BuildFlightPaths \/ BuildVisualPaths \/ ComputeBaseScaled
    \/ PlotPoints \/ PlotLineStrip \/ ComputeVelocity
    \/ MoveOnPathAsync \/ MonitorTick \/ MonitorCeiling
    \/ JoinPath \/ JoinPathBlocks \/ JoinWaitInterrupted
    \/ CancelLastTask \/ Settle \/ PlaybackComplete
    \/ ExceptKeyboardInterrupt \/ ExceptException
    \/ LandAsync \/ JoinLand \/ Disarm \/ ReleaseControl \/ Reset
    \/ MainReportComplete \/ MainExcept \/ MainPropagate

Next == NextButLabels \/ PlotStrings

Spec == Init /\ [][Next]_vars

\* The run is over: the function returned or an exception left it.
RunOver == pc \in {"returned", "raised"}

\* The vehicles a command has been issued to so far.
Issued(op) == {cmds[i][2] : i \in {j \in 1..Len(cmds) : cmds[j][1] = op}}
\* How many times the command has been issued to the vehicle.
Count(op, v) == Cardinality({i \in 1..Len(cmds) : cmds[i] = <<op, v>>})
\* The position of the first command op in the log, 0 when there is none.
FirstIndex(op) == FirstOf({i \in 1..Len(cmds) : cmds[i][1] = op})

\* A message the run has printed.
Reported(msg) == \E i \in 1..Len(report) : report[i] = msg

\* The outcome the run reports to its operator (visualize_episode.py:571-585):
\* the code prints no message of its own for a run that hit the ceiling.
Outcome ==
    IF Reported("interrupted by user") THEN "Interrupted"
    ELSE IF Reported("ERROR during visualization") THEN "Failed"
    ELSE IF Reported("PLAYBACK COMPLETE") THEN "Completed"
    ELSE "Unfinished"

\* C1: whichever way the run ends (completion, ceiling, interrupt, error,
\* including one raised after arming and before path dispatch), every
\* vehicle that was armed has been issued land, disarm and release-control.
C1_ArmedAgentsCleanedUp ==
    (RunOver /\ Issued("arm") = VehicleSet) =>
        \A v \in Issued("arm") :
            v \in Issued("land") /\ v \in Issued("disarm") /\ v \in Issued("release")

\* The operator's Ctrl+C arrived while the monitoring loop was running.
InterruptedInMonitoring == exc.kind = "KeyboardInterrupt" /\ exc.at = "monitor"

\* C2: when an interrupt arrives while the monitoring loop is running, a
\* cancel has been issued to every vehicle with a dispatched path before the
\* first land command is issued.
C2_CancelBeforeLand ==
    (InterruptedInMonitoring /\ FirstIndex("land") # 0) =>
        \A v \in Issued("moveOnPath") :
            \E i \in 1..(FirstIndex("land") - 1) : cmds[i] = <<"cancel", v>>

\* The monitoring loop ended at its ceiling and nothing was raised after it.
CeilingRun == pc = "returned" /\ iteration = MaxIterations /\ exc.kind = "none"

\* C3: a run whose monitoring loop reached the iteration ceiling before all
\* vehicles arrived ends with an outcome of its own, neither Completed nor
\* Failed, and each vehicle has been issued land exactly once.
C3_TimedOutReported ==
    CeilingRun =>
        /\ Outcome \notin {"Completed", "Failed"}
        /\ \A v \in VehicleSet : Count("land", v) = 1

\* The vehicle was within the threshold of its final target at some tick.
HasArrived(v) ==
    \E i \in 1..Len(trajectory[v]) : Near(trajectory[v][i], FinalOf(v))

\* C4: arrival is per vehicle and latched: the loop ends at the first tick by
\* which every vehicle has been within the threshold of its target (at that
\* tick or an earlier one), and never reports arrival while some vehicle has
\* not been within the threshold.
C4_LatchedArrival ==
    /\ (pc = "monitor" /\ iteration < MaxIterations) => ~(\A v \in VehicleSet : HasArrived(v))
    /\ Reported("near final positions") => \A v \in VehicleSet : HasArrived(v)

(***************************************************************************)
(* config.py: auto_configure_from_metadata                                 *)
(***************************************************************************)
\* str.upper() on the coordinate-system labels that occur.
CoordLabels == {"absent", "NED", "ned", "ENU"}
Upper(label) == IF label = "ned" THEN "NED" ELSE label

\* range(0, stop, step) as a sequence, for step >= 1.
PyRange(stop, step) ==
    [j \in 1..(IF stop <= 0 THEN 0 ELSE ((stop - 1) \div step) + 1) |-> (j - 1) * step]

MaxSamples == 10        \* min(10, len(frames)) and len(frames) // 10
InvertThreshold == 1    \* avg_z > 1.0

\* The frame indices the sampling loop visits (config.py:179), 0-based.
SampleIndices(n) ==
    PyRange(IF n < MaxSamples THEN n ELSE MaxSamples,
            IF n \div MaxSamples > 1 THEN n \div MaxSamples ELSE 1)

\* sample_z_values after the first j iterations of the loop (config.py:179-184).
RECURSIVE SampledZ(_, _, _)
SampledZ(fr, idx, j) ==
    IF j = 0 THEN <<>>
    ELSE LET frame == fr[idx[j] + 1]
             d == IF "defender" \in DOMAIN frame THEN <<frame["defender"][3]>> ELSE <<>>
             a == IF "attacker" \in DOMAIN frame THEN <<frame["attacker"][3]>> ELSE <<>>
         IN  SampledZ(fr, idx, j - 1) \o d \o a

RECURSIVE SumSeq(_, _)
SumSeq(q, n) == IF n = 0 THEN 0 ELSE SumSeq(q, n - 1) + q[n]

\* avg_z > 1.0 for avg_z = sum(values) / len(values), len(values) > 0.
MeanAboveThreshold(values) ==
    SumSeq(values, Len(values)) > InvertThreshold * Len(values)

\* A configuration step that lets the metadata label decide first and only
\* samples the data when the label is absent.
auto_configure_label_first(md, cfg, given, fr) ==
    LET coord_system == Upper(IF md.coordinate_system = "absent"
                                THEN "NED" ELSE md.coordinate_system)
        samples == IF given THEN SampledZ(fr, SampleIndices(Len(fr)),
                                          Len(SampleIndices(Len(fr))))
                            ELSE <<>>
        invert == IF md.coordinate_system # "absent" THEN coord_system # "NED"
                  ELSE IF Len(samples) > 0 THEN MeanAboveThreshold(samples)
                  ELSE cfg.INVERT_Z
    IN  [config |-> [cfg EXCEPT !.INVERT_Z = invert, !.Z_OFFSET = 0],
         sample_z_values |-> samples]

\* config.py:157-208.  "if episode_data" is false for None.
auto_configure_offset_kept(md, cfg, given, fr) ==
    LET coord_system == Upper(IF md.coordinate_system = "absent"
                                THEN "NED" ELSE md.coordinate_system)
        samples == IF given THEN SampledZ(fr, SampleIndices(Len(fr)),
                                          Len(SampleIndices(Len(fr))))
                            ELSE <<>>
        invert == IF given
                    THEN (IF Len(samples) > 0 THEN MeanAboveThreshold(samples)
                                              ELSE cfg.INVERT_Z)
                    ELSE coord_system # "NED"
    IN  [config |-> [cfg EXCEPT !.INVERT_Z = invert],
         sample_z_values |-> samples]
auto_configure_from_metadata(md, cfg, given, fr) ==
    LET coord_system == Upper(IF md.coordinate_system = "absent"
                                THEN "NED" ELSE md.coordinate_system)
        samples == IF given THEN SampledZ(fr, SampleIndices(Len(fr)),
                                          Len(SampleIndices(Len(fr))))
                            ELSE <<>>
        invert == IF given
                    THEN (IF Len(samples) > 0 THEN MeanAboveThreshold(samples)
                                              ELSE cfg.INVERT_Z)
                    ELSE coord_system # "NED"
    IN  [config |-> [cfg EXCEPT !.INVERT_Z = invert, !.Z_OFFSET = 0],
         sample_z_values |-> samples]

(***************************************************************************)
(* SpecAuto: one call of auto_configure_from_metadata on a drawn config,   *)
(* metadata label and Timeline.                                            *)
(***************************************************************************)
MaxAutoFrames == 2      \* drawn Timelines hold at most MaxAutoFrames frames ...
LongLen == 20           \* ... or LongLen frames whose vertical values alternate

AutoZ == {-2, 1, 2}
AutoFrame(zd, za) ==
    [defender |-> <<0, 0, zd>>, attacker |-> <<0, 0, za>>, base |-> BasePoint]
AutoFrames ==
    {AutoFrame(zd, za) : zd \in AutoZ, za \in AutoZ}
        \cup {[defender |-> <<0, 0, 2>>, base |-> BasePoint], [base |-> BasePoint]}
RECURSIVE AutoTimelinesOfLen(_)
AutoTimelinesOfLen(n) ==
    IF n = 0 THEN {<<>>}
    ELSE {Append(t, f) : t \in AutoTimelinesOfLen(n - 1), f \in AutoFrames}
\* Even frames (0-based) hold za, odd frames zb, for both agents.
LongTimeline(za, zb) ==
    [i \in 1..LongLen |-> IF i % 2 = 1 THEN AutoFrame(za, za) ELSE AutoFrame(zb, zb)]
\* LongLen frames in which both agents are at the height of the frame's
\* index (0-based), so that a sampled value tells which frame it came from.
RampTimeline == [i \in 1..LongLen |-> AutoFrame(i - 1, i - 1)]
AutoTimelines ==
    UNION {AutoTimelinesOfLen(n) : n \in 0..MaxAutoFrames}
        \cup {LongTimeline(za, zb) : za \in AutoZ, zb \in AutoZ}
        \cup {RampTimeline}

InitAuto ==
    /\ pc = "ac_call"
    /\ config \in Configs
    /\ metadata \in [coordinate_system : CoordLabels, vehicle_names : {Vehicles}]
    /\ episode_given \in BOOLEAN
    /\ frames \in AutoTimelines
    /\ sample_z_values = <<>>
    /\ start_frame = 0 /\ end_frame = None
    /\ actual = [v \in VehicleSet |-> Origin]
    /\ path = NoPaths /\ path_visual = NoPaths /\ base_path = <<>>
    /\ settings = <<>> /\ exc = NoExc
    /\ NoTransformCall
    /\ NoRunner
    /\ NoTimelineCall
    /\ NoVelocity
    /\ NoRun
    /\ NoCaller

AutoConfigure ==
    /\ pc = "ac_call"
    /\ LET r == auto_configure_from_metadata(metadata, config, episode_given, frames)
       IN  config' = r.config /\ sample_z_values' = r.sample_z_values
    /\ pc' = "ac_done"
    /\ UNCHANGED <<timelineVars, runnerVars, transformVars, metadata, episode_given, caller, skip_takeoff,
                   fbx_object_name, inputVars, pathVars, velocityVars, runVars>>

NextAuto == AutoConfigure

SpecAuto == InitAuto /\ [][NextAuto]_vars

\* C11: whenever auto_configure_from_metadata is given episode data from which
\* at least one vertical value is sampled, INVERT_Z is true if the mean of the
\* sampled values is above the threshold 1.0 and false if it is at or below
\* it, whatever the metadata label says.
C11_AutoDetectInvert ==
    (pc = "ac_done" /\ episode_given /\ Len(sample_z_values) > 0) =>
        (config.INVERT_Z <=>
            SumSeq(sample_z_values, Len(sample_z_values)) > Len(sample_z_values))

\* C11 witness: a recording labelled NED whose sampled vertical values have a
\* mean above the threshold has been configured with the inversion on, and
\* the sampling skipped the odd frames of a long Timeline.
C11_Witness ==
    /\ pc = "ac_done" /\ episode_given
    /\ metadata.coordinate_system = "NED"
    /\ frames = LongTimeline(2, -2)
    /\ Len(sample_z_values) = 10
    /\ config.INVERT_Z

\* The frame indices that were sampled from RampTimeline, read off the
\* defender's sampled heights.
SampledRampIndices ==
    [j \in 1..(Len(sample_z_values) \div 2) |-> sample_z_values[2 * j - 1]]

\* C29: on a Timeline of N frames auto-detection samples at most 10 frames,
\* at equally spaced indices starting at frame 0, and the last sampled index
\* is within one spacing step of frame N-1.
C29_SamplesSpanTimeline ==
    (pc = "ac_done" /\ episode_given /\ frames = RampTimeline) =>
        LET idx == SampledRampIndices
            n == Len(idx)
            spacing == IF n >= 2 THEN idx[2] - idx[1] ELSE 1
        IN  /\ n >= 1 /\ n <= 10
            /\ idx[1] = 0
            /\ \A j \in 2..n : idx[j] - idx[j - 1] = spacing
            /\ (Len(frames) - 1) - idx[n] <= spacing

C36_OnlyInvertAndOffset ==
    [][(pc = "ac_call" /\ pc' = "ac_done") =>
          /\ DOMAIN config' = DOMAIN config
          /\ config'.SCALE_FACTOR = config.SCALE_FACTOR
          /\ config'.Z_OFFSET = 0]_vars

\* A call has returned a config whose scale factor is not the default's.
C36_Witness ==
    /\ pc = "ac_done"
    /\ config.SCALE_FACTOR = MaxScale
    /\ config.Z_OFFSET = 0
    /\ sample_z_values # <<>>

\* A configuration error: no frames, a scale that is not positive, or a frame
\* range that is empty after the clamp.
ConfigError ==
    \/ Len(frames) = 0
    \/ config.SCALE_FACTOR <= 0
    \/ start_frame >= ClampEnd(end_frame, frames)

\* The commands that change the state of the simulator's vehicles.
Mutating == {"enableApiControl", "arm", "takeoff", "moveOnPath"}

\* C13: configuration errors fail fast: when the frame range is empty, the
\* Timeline has no frames or the scale is not positive, no command that
\* changes simulator state (enable control, arm, takeoff, follow path) is
\* issued.
C13_ConfigErrorsFailFast ==
    ConfigError => \A i \in 1..Len(cmds) : cmds[i][1] \notin Mutating

\* C14: cancellation is all-or-nothing: once the first land command has been
\* issued, the vehicles whose command was cancelled are none or all of the
\* dispatched ones, also when an interrupt or an error comes between the two
\* cancel calls.
C14_CancelAllOrNothing ==
    FirstIndex("land") # 0 =>
        \/ Issued("cancel") = {}
        \/ Issued("cancel") = Issued("moveOnPath")

\* A pose query of the monitoring loop raised a simulator error.
MonitoringFailed == exc.kind = "RPCError" /\ exc.at = "monitor"

\* C16: a simulator error during monitoring aborts monitoring (no further
\* pose query), the outcome of the run is Failed, and the caller of the run
\* does not report it as successfully completed.
C16_MonitoringErrorFails ==
    MonitoringFailed =>
        /\ pc # "monitor"
        /\ pc \in {"main_done", "main_raised"} =>
              /\ Outcome = "Failed"
              /\ ~Reported("Visualization complete!")

\* The steps of the finally clause.
LandingSteps == {"land", "land_join", "disarm", "release", "reset"}

\* C17: a failure of a command issued during landing (land, join, disarm,
\* release-control or the fallback reset) is never raised out of the run.
C17_CleanupNeverRaises ==
    (pc = "raised" /\ exc.kind = "RPCError") => exc.at \notin LandingSteps

\* The number of polling ticks made so far.
Ticks == Len(trajectory["Defender"])
\* The arrival condition of the loop held at tick i.
ArrivedAt(i) == \A v \in VehicleSet : Near(trajectory[v][i], FinalOf(v))

\* C18: the monitoring loop is bounded: the number of polling ticks, the same
\* for every vehicle, is at most the iteration ceiling, and the loop exits at
\* the first tick at which the arrival condition holds: no earlier tick
\* satisfied it and no tick follows one that does.
C18_MonitoringBounded ==
    /\ Ticks <= MaxIterations
    /\ \A v \in VehicleSet : Len(trajectory[v]) = Ticks
    /\ \A i \in 1..(Ticks - 1) : ~ArrivedAt(i)
    /\ (Ticks > 0 /\ ArrivedAt(Ticks)) => pc # "monitor"

\* C18 witness: the loop has ended at its second tick, the first at which both
\* vehicles were within the threshold.
C18_Witness ==
    /\ pc = "join_path"
    /\ Ticks = 2
    /\ ~ArrivedAt(1) /\ ArrivedAt(2)
    /\ Reported("near final positions")

\* C19: dispatch ordering: every follow-path command comes after the joins of
\* the takeoff commands of all vehicles, and all vehicles have been issued
\* their follow-path command before the monitoring loop polls or the run
\* joins any of them.
C19_DispatchOrdering ==
    /\ \A i \in 1..Len(cmds) :
          cmds[i][1] = "moveOnPath" =>
              \A v \in VehicleSet : \E j \in 1..(i - 1) : cmds[j] = <<"join_takeoff", v>>
    /\ (pc \in {"monitor", "join_path", "join_wait"} \/ Ticks > 0 \/ Issued("join_path") # {})
          => Issued("moveOnPath") = VehicleSet

\* C19 witness: the loop has polled once, after both takeoffs were joined and
\* both paths dispatched.
C19_Witness ==
    /\ pc = "monitor" /\ Ticks = 1
    /\ Issued("join_takeoff") = VehicleSet
    /\ Issued("moveOnPath") = VehicleSet

\* The follow-path command of a vehicle ended in error: its join raised.
PathCommandFailed == exc.kind = "RPCError" /\ exc.at = "join_path"

\* C20: when the follow-path command of one vehicle ends in error, the run
\* still joins the command of every other vehicle and reports the distance
\* of every vehicle to its target in one summary.
C20_JointSummary ==
    (PathCommandFailed /\ FirstIndex("land") # 0) =>
        /\ Cardinality(Issued("join_path")) >= Cardinality(Issued("moveOnPath")) - 1
        /\ Reported("near final positions")

\* Every vehicle's takeoff has been issued and joined.
TakeoffsJoined == Issued("join_takeoff") = VehicleSet

\* C27: the start pose is read from the simulator after every takeoff has
\* been joined and before any follow-path command is issued, and until the
\* monitoring loop reads the poses again the first waypoint of each flight
\* path is that pose.
C27_PathStartsAtObservedPose ==
    /\ [](\A v \in VehicleSet :
             (Len(path[v]) >= 1 /\ trajectory[v] = <<>>) =>
                 (path[v][1] = actual[v] /\ TakeoffsJoined))
    /\ [][(pc = "get_state" /\ actual' # actual) =>
             (TakeoffsJoined /\ Issued("moveOnPath") = {})]_vars

\* Both vehicles were dispatched along paths that start at the observed
\* pose, which differs from the transformed first frame of the recording.
C27_Witness ==
    /\ pc = "monitor"
    /\ trajectory = NoPaths
    /\ Issued("moveOnPath") = VehicleSet
    /\ actual["Defender"] = <<1, 0, -2>>
    /\ path["Defender"][1] = <<1, 0, -2>>
    /\ transform_position(frames[1]["defender"], config) = Origin

(***************************************************************************)
(* SpecLive: the run of Spec under the assumption that the script keeps    *)
(* taking steps: a step that raises nothing is taken when one stays        *)
(* possible.  Errors, interrupts and the simulator's reports are not       *)
(* forced.                                                                 *)
(***************************************************************************)
Advance == Next /\ exc' = exc

SpecLive == Spec /\ WF_vars(Advance)

\* C15: the final join does not hang: once the monitoring loop has exited to
\* the join of the follow-path commands, the run eventually reaches landing,
\* even if the simulator never reports a command as finished.
C15_JoinReachesLanding == (pc = "join_path") ~> (pc = "land")

(***************************************************************************)
(* SpecFbx: one run of visualize_episode_with_fbx                          *)
(* (visualize_episode_with_car.py:132-525) and of the main() that calls    *)
(* it, one action per simulator call or computation.                       *)
(* pc = "fbx_returned" is the function returning to its caller,            *)
(* pc = "fbx_raised" an exception leaving it.                              *)
(***************************************************************************)
\* vehicle_names = metadata.get('vehicle_names', ['Defender', 'Attacker'])
FbxNames == metadata.vehicle_names

\* Where an exception raised at a step of the function goes: out of the
\* function ("outside" every try), to the except clauses of lines 489-494
\* ("try"), or to the "except Exception" of the landing (lines 520-525),
\* which Ctrl+C passes by ("finally").
FbxRaise(where, e) ==
    /\ exc' = Raised(e)
    /\ pc' = IF where = "outside" THEN "fbx_raised"
             ELSE IF where = "try"
               THEN (IF e = "KeyboardInterrupt" THEN "fbx_except_interrupt"
                                                ELSE "fbx_except_error")
             ELSE (IF e = "KeyboardInterrupt" THEN "fbx_raised" ELSE "fbx_land_failed")

\* One iteration of a loop over vehicle_names that makes the call op for
\* vehicle_names[k]; the loop is left for donepc when the list is exhausted.
FbxVehicleCall(op, okpc, advance, donepc, where) ==
    IF k > Len(FbxNames)
      THEN pc' = donepc /\ k' = 1 /\ cmds' = cmds /\ exc' = exc
      ELSE \E outcome \in Outcomes :
              IF outcome = "ok"
                THEN /\ cmds' = Append(cmds, <<op, FbxNames[k]>>)
                     /\ exc' = exc
                     /\ pc' = okpc
                     /\ k' = IF advance THEN k + 1 ELSE k
                ELSE /\ FbxRaise(where, ExcOf(outcome))
                     /\ cmds' = cmds
                     /\ k' = 1

\* What visualize_episode_with_fbx never changes.
FbxKeep ==
    UNCHANGED <<config, timelineVars, runnerVars, transformVars, metadata, episode_given, sample_z_values, caller,
                skip_takeoff, frames, start_frame, settings, playback_speed, iteration,
                trajectory>>
FbxKeepPaths == UNCHANGED <<end_frame, actual, path, path_visual, base_path, velocities>>

\* check_base_trajectory (visualize_episode_with_car.py:109-129) reads the
\* base of every frame up to the first one that moved: whether it raises
\* KeyError.
RECURSIVE BaseCheckRaises(_, _, _)
BaseCheckRaises(ef, cfg, i) ==
    IF i > Len(ef) THEN FALSE
    ELSE IF "base" \notin DOMAIN ef[i] THEN TRUE
    ELSE IF transform_position(ef[i]["base"], cfg) # transform_position(ef[1]["base"], cfg)
      THEN FALSE
    ELSE BaseCheckRaises(ef, cfg, i + 1)
check_base_trajectory_raises(ef, cfg) ==
    IF Len(ef) < 2 THEN FALSE
    ELSE IF "base" \notin DOMAIN ef[1] THEN TRUE
    ELSE BaseCheckRaises(ef, cfg, 2)

\* visualize_episode_with_car.py:155-170
FbxClampRange ==
    /\ pc = "fbx_entry"
    /\ end_frame' = <<ClampEnd(end_frame, frames)>>
    /\ pc' = "fbx_connect"
    /\ FbxKeep
    /\ UNCHANGED <<actual, path, path_visual, base_path, velocities, exc, k, cmds, report,
                   fbx_object_name>>

\* visualize_episode_with_car.py:174-175
FbxConnect ==
    /\ pc = "fbx_connect"
    /\ \E outcome \in Outcomes :
          IF outcome = "ok" THEN pc' = "fbx_base_check" /\ exc' = exc
                            ELSE FbxRaise("outside", ExcOf(outcome))
    /\ FbxKeep /\ FbxKeepPaths /\ UNCHANGED <<k, cmds, report, fbx_object_name>>

\* visualize_episode_with_car.py:179-184
FbxCheckBase ==
    /\ pc = "fbx_base_check"
    /\ IF check_base_trajectory_raises(EpisodeFrames(frames, start_frame, end_frame), config)
         THEN FbxRaise("outside", "KeyError")
         ELSE pc' = "fbx_flush" /\ exc' = exc
    /\ FbxKeep /\ FbxKeepPaths /\ UNCHANGED <<k, cmds, report, fbx_object_name>>

\* visualize_episode_with_car.py:188-192: the bare except swallows every outcome.
FbxFlushMarkers ==
    /\ pc = "fbx_flush"
    /\ \E outcome \in Outcomes : pc' = "fbx_enable"
    /\ FbxKeep /\ FbxKeepPaths /\ UNCHANGED <<exc, k, cmds, report, fbx_object_name>>

\* visualize_episode_with_car.py:196-197
FbxEnableApiControl ==
    /\ pc = "fbx_enable"
    /\ FbxVehicleCall("enableApiControl", "fbx_arm", FALSE, "fbx_takeoff", "outside")
    /\ FbxKeep /\ FbxKeepPaths /\ UNCHANGED <<report, fbx_object_name>>

\* visualize_episode_with_car.py:198
FbxArmDisarm ==
    /\ pc = "fbx_arm"
    /\ FbxVehicleCall("arm", "fbx_enable", TRUE, "fbx_enable", "outside")
    /\ FbxKeep /\ FbxKeepPaths /\ UNCHANGED <<report, fbx_object_name>>

\* visualize_episode_with_car.py:201: skip_takeoff is set.
FbxSkipTakeoff ==
    /\ pc = "fbx_takeoff"
    /\ skip_takeoff
    /\ pc' = "fbx_build"
    /\ FbxKeep /\ FbxKeepPaths /\ UNCHANGED <<exc, k, cmds, report, fbx_object_name>>

\* visualize_episode_with_car.py:203
FbxTakeoffAsync ==
    /\ pc = "fbx_takeoff"
    /\ ~skip_takeoff
    /\ FbxVehicleCall("takeoff", "fbx_takeoff", TRUE, "fbx_takeoff_join", "outside")
    /\ FbxKeep /\ FbxKeepPaths /\ UNCHANGED <<report, fbx_object_name>>

\* visualize_episode_with_car.py:204-205
FbxJoinTakeoff ==
    /\ pc = "fbx_takeoff_join"
    /\ FbxVehicleCall("join_takeoff", "fbx_takeoff_join", TRUE, "fbx_stabilize", "outside")
    /\ FbxKeep /\ FbxKeepPaths /\ UNCHANGED <<report, fbx_object_name>>

\* visualize_episode_with_car.py:207: time.sleep(3)
FbxStabilize ==
    /\ pc = "fbx_stabilize"
    /\ \E outcome \in {"ok", "interrupt"} :
          IF outcome = "ok" THEN pc' = "fbx_build" /\ exc' = exc
                            ELSE FbxRaise("outside", ExcOf(outcome))
    /\ FbxKeep /\ FbxKeepPaths /\ UNCHANGED <<k, cmds, report, fbx_object_name>>

\* visualize_episode_with_car.py:222-261: paths and base_path; an empty range
\* raises IndexError at paths['Defender'][0].
FbxBuildPaths ==
    /\ pc = "fbx_build"
    /\ LET r == BuildFbxPaths(frames, start_frame, end_frame, config, actual)
       IN  /\ path_visual' = r.path_visual
           /\ base_path' = r.base_path
           /\ IF r.exc = "none" THEN pc' = "fbx_pose" /\ exc' = exc
                                ELSE FbxRaise("try", r.exc)
    /\ FbxKeep
    /\ UNCHANGED <<end_frame, actual, path, velocities, k, cmds, report, fbx_object_name>>

\* visualize_episode_with_car.py:264-265: simGetVehiclePose of 'Defender', then
\* of 'Attacker', whatever vehicle_names holds.
FbxGetPose ==
    /\ pc = "fbx_pose"
    /\ \E outcome \in Outcomes :
          IF outcome = "ok"
            THEN /\ \E pose \in ObservedPoses :
                       actual' = [actual EXCEPT ![Vehicles[k]] = pose[Vehicles[k]]]
                 /\ exc' = exc
                 /\ IF k < Len(Vehicles) THEN k' = k + 1 /\ pc' = pc
                                         ELSE k' = 1 /\ pc' = "fbx_offsets"
            ELSE /\ FbxRaise("try", ExcOf(outcome))
                 /\ actual' = actual /\ k' = 1
    /\ FbxKeep
    /\ UNCHANGED <<end_frame, path, path_visual, base_path, velocities, cmds, report,
                   fbx_object_name>>

\* visualize_episode_with_car.py:274-298: flight_paths
FbxOffsetPaths ==
    /\ pc = "fbx_offsets"
    /\ path' = BuildFbxPaths(frames, start_frame, end_frame, config, actual).path
    /\ pc' = "fbx_spawn"
    /\ FbxKeep
    /\ UNCHANGED <<end_frame, actual, path_visual, base_path, velocities, exc, k, cmds, report,
                   fbx_object_name>>

\* visualize_episode_with_car.py:305-312 and spawn_fbx_model (36-82): the
\* object is spawned, or the simulator refuses or raises and the function
\* returns None; Ctrl+C during simSpawnObject passes its "except Exception".
FbxSpawnModel ==
    /\ pc = "fbx_spawn"
    /\ IF base_path = <<>>
         THEN /\ pc' = "fbx_plot_points"
              /\ UNCHANGED <<exc, cmds, fbx_object_name>>
         ELSE \E result \in {"spawned", "refused", "error", "interrupt"} :
                IF result = "interrupt"
                  THEN FbxRaise("try", "KeyboardInterrupt")
                       /\ UNCHANGED <<cmds, fbx_object_name>>
                  ELSE /\ pc' = "fbx_plot_points"
                       /\ exc' = exc
                       /\ fbx_object_name' = IF result = "spawned" THEN <<"BaseTank">> ELSE None
                       /\ cmds' = IF result = "spawned"
                                    THEN Append(cmds, <<"spawn", "BaseTank">>) ELSE cmds
    /\ FbxKeep /\ FbxKeepPaths /\ UNCHANGED <<k, report>>

\* visualize_episode_with_car.py:319-325, 340-346: simPlotPoints of the start
\* marker of Vehicles[k].
FbxPlotPoints ==
    /\ pc = "fbx_plot_points"
    /\ \E outcome \in Outcomes :
          IF outcome = "ok" THEN pc' = "fbx_plot_strings" /\ exc' = exc /\ k' = k
                            ELSE FbxRaise("try", ExcOf(outcome)) /\ k' = 1
    /\ FbxKeep /\ FbxKeepPaths /\ UNCHANGED <<cmds, report, fbx_object_name>>

\* visualize_episode_with_car.py:326-336, 347-357: simPlotStrings inside
\* "except Exception".
FbxPlotStrings ==
    /\ pc = "fbx_plot_strings"
    /\ \E outcome \in Outcomes :
          IF outcome = "interrupt"
            THEN FbxRaise("try", ExcOf(outcome)) /\ k' = 1
            ELSE /\ exc' = exc
                 /\ IF k < Len(Vehicles) THEN k' = k + 1 /\ pc' = "fbx_plot_points"
                                         ELSE k' = 1 /\ pc' = "fbx_plot_lines"
    /\ FbxKeep /\ FbxKeepPaths /\ UNCHANGED <<cmds, report, fbx_object_name>>

\* visualize_episode_with_car.py:360-382: simPlotLineStrip inside
\* "except Exception".
FbxPlotLineStrip ==
    /\ pc = "fbx_plot_lines"
    /\ \E outcome \in Outcomes :
          IF outcome = "interrupt"
            THEN FbxRaise("try", ExcOf(outcome)) /\ k' = 1
            ELSE /\ exc' = exc
                 /\ IF k < Len(Vehicles) THEN k' = k + 1 /\ pc' = pc
                                         ELSE k' = 1 /\ pc' = "fbx_velocity"
    /\ FbxKeep /\ FbxKeepPaths /\ UNCHANGED <<cmds, report, fbx_object_name>>

\* visualize_episode_with_car.py:402-423 for the vehicles of a list of names:
\* max_path_length is 1.0 when the list is empty.
FbxVelocitiesOf_unguarded(names, paths, speed) ==
    LET listed == {names[i] : i \in 1..Len(names)}
        path_lengths == [v \in listed |-> calculate_path_length(paths[v])]
        base_velocity == FbxBaseVelocity(speed)
        max_path_length == IF listed = {} THEN 1
                           ELSE MaxOf({path_lengths[v] : v \in listed})
        estimated_duration == QDiv(QInt(max_path_length), base_velocity)
        computed == [v \in listed |-> QDiv(QInt(path_lengths[v]), estimated_duration)]
    IN  [v \in listed |->
            IF v = "Defender" THEN QMul(computed[v], <<11, 10>>) ELSE computed[v]]
FbxVelocitiesOf(names, paths, speed) ==
    LET listed == {names[i] : i \in 1..Len(names)}
        path_lengths == [v \in listed |-> calculate_path_length(paths[v])]
        base_velocity == FbxBaseVelocity(speed)
        max_path_length == IF listed = {} THEN 1
                           ELSE MaxOf({path_lengths[v] : v \in listed})
        estimated_duration == QDiv(QInt(max_path_length), base_velocity)
        computed == [v \in listed |->
                        IF path_lengths[v] > 0
                          THEN QDiv(QInt(path_lengths[v]), estimated_duration)
                          ELSE base_velocity]
    IN  [v \in listed |->
            IF v = "Defender" THEN QMul(computed[v], <<11, 10>>) ELSE computed[v]]

\* visualize_episode_with_car.py:402-431: the velocities, then the print of
\* len(paths[vehicle_names[0]]), an IndexError on an empty list.
FbxComputeVelocity ==
    /\ pc = "fbx_velocity"
    /\ velocities' = FbxVelocitiesOf(FbxNames, path_visual, playback_speed)
    /\ IF Len(FbxNames) = 0 THEN FbxRaise("try", "IndexError")
                            ELSE pc' = "fbx_dispatch" /\ exc' = exc
    /\ FbxKeep
    /\ UNCHANGED <<end_frame, actual, path, path_visual, base_path, k, cmds, report,
                   fbx_object_name>>

\* visualize_episode_with_car.py:436-449: a vehicle whose flight path has at
\* most one waypoint is passed over.
FbxMoveOnPathAsync ==
    /\ pc = "fbx_dispatch"
    /\ IF k > Len(FbxNames)
         THEN pc' = "fbx_join" /\ k' = 1 /\ cmds' = cmds /\ exc' = exc
       ELSE IF Len(path[FbxNames[k]]) > 1
         THEN FbxVehicleCall("moveOnPath", "fbx_dispatch", TRUE, "fbx_join", "try")
       ELSE pc' = pc /\ k' = k + 1 /\ cmds' = cmds /\ exc' = exc
    /\ FbxKeep /\ FbxKeepPaths /\ UNCHANGED <<report, fbx_object_name>>

\* drone_futures: the vehicles that were dispatched, in the order of dispatch.
DroneFutures == SelectSeq(FbxNames, LAMBDA v : v \in Issued("moveOnPath"))

\* visualize_episode_with_car.py:455-460: each join inside "except Exception".
FbxJoinPath ==
    /\ pc = "fbx_join"
    /\ IF k > Len(DroneFutures)
         THEN pc' = "fbx_final_pose" /\ k' = 1 /\ UNCHANGED <<cmds, exc, report>>
         ELSE \E outcome \in Outcomes :
                IF outcome = "interrupt"
                  THEN FbxRaise("try", ExcOf(outcome)) /\ k' = 1 /\ UNCHANGED <<cmds, report>>
                  ELSE /\ pc' = pc /\ k' = k + 1 /\ exc' = exc
                       /\ cmds' = IF outcome = "ok"
                                    THEN Append(cmds, <<"join_path", DroneFutures[k]>>)
                                    ELSE cmds
                       /\ report' = IF outcome = "ok" THEN report
                                    ELSE Append(report, "follow-path command failed")
    /\ FbxKeep /\ FbxKeepPaths /\ UNCHANGED fbx_object_name

\* visualize_episode_with_car.py:464-480: the final poses of 'Defender' and
\* 'Attacker' are read and their distances to the last waypoints printed.
FbxFinalPose ==
    /\ pc = "fbx_final_pose"
    /\ \E outcome \in Outcomes :
          IF outcome = "ok"
            THEN /\ \E where \in {"at", "off"} :
                       actual' = [actual EXCEPT ![Vehicles[k]] = PoseOf(Vehicles[k], where)]
                 /\ exc' = exc
                 /\ IF k < Len(Vehicles)
                      THEN k' = k + 1 /\ pc' = pc /\ report' = report
                      ELSE /\ k' = 1 /\ pc' = "fbx_complete"
                           /\ report' = Append(report, "final distances")
            ELSE /\ FbxRaise("try", ExcOf(outcome))
                 /\ actual' = actual /\ k' = 1 /\ report' = report
    /\ FbxKeep
    /\ UNCHANGED <<end_frame, path, path_visual, base_path, velocities, cmds, fbx_object_name>>

\* visualize_episode_with_car.py:482-487: "PLAYBACK COMPLETE", then time.sleep(3).
FbxPlaybackComplete ==
    /\ pc = "fbx_complete"
    /\ report' = Append(report, "PLAYBACK COMPLETE")
    /\ \E outcome \in {"ok", "interrupt"} :
          IF outcome = "ok" THEN pc' = "fbx_cleanup" /\ exc' = exc
                            ELSE FbxRaise("try", ExcOf(outcome))
    /\ FbxKeep /\ FbxKeepPaths /\ UNCHANGED <<k, cmds, fbx_object_name>>

\* visualize_episode_with_car.py:489-494: the except clauses of the run.
FbxExcept ==
    /\ pc \in {"fbx_except_interrupt", "fbx_except_error"}
    /\ report' = Append(report, IF pc = "fbx_except_interrupt"
                                  THEN "interrupted by user"
                                  ELSE "ERROR during visualization")
    /\ pc' = "fbx_cleanup"
    /\ FbxKeep /\ FbxKeepPaths /\ UNCHANGED <<exc, k, cmds, fbx_object_name>>

\* visualize_episode_with_car.py:497-503: simDestroyObject of the spawned
\* object inside a bare except.
FbxDestroyObject ==
    /\ pc = "fbx_cleanup"
    /\ IF fbx_object_name = None
         THEN cmds' = cmds
         ELSE \E outcome \in Outcomes :
                cmds' = IF outcome = "ok" THEN Append(cmds, <<"destroy", fbx_object_name[1]>>)
                                          ELSE cmds
    /\ pc' = "fbx_land" /\ k' = 1
    /\ FbxKeep /\ FbxKeepPaths /\ UNCHANGED <<exc, report, fbx_object_name>>

\* visualize_episode_with_car.py:508
FbxLandAsync ==
    /\ pc = "fbx_land"
    /\ FbxVehicleCall("land", "fbx_land", TRUE, "fbx_land_join", "finally")
    /\ FbxKeep /\ FbxKeepPaths /\ UNCHANGED <<report, fbx_object_name>>

\* visualize_episode_with_car.py:509-510
FbxJoinLand ==
    /\ pc = "fbx_land_join"
    /\ FbxVehicleCall("join_land", "fbx_land_join", TRUE, "fbx_land_sleep", "finally")
    /\ FbxKeep /\ FbxKeepPaths /\ UNCHANGED <<report, fbx_object_name>>

\* visualize_episode_with_car.py:514: time.sleep(3)
FbxLandSleep ==
    /\ pc = "fbx_land_sleep"
    /\ \E outcome \in {"ok", "interrupt"} :
          IF outcome = "ok" THEN pc' = "fbx_disarm" /\ exc' = exc
                            ELSE FbxRaise("finally", ExcOf(outcome))
    /\ FbxKeep /\ FbxKeepPaths /\ UNCHANGED <<k, cmds, report, fbx_object_name>>

\* visualize_episode_with_car.py:516-519: armDisarm(False) of vehicle_names[k],
\* and "Vehicles landed and disarmed" after the last vehicle.
FbxDisarm ==
    /\ pc = "fbx_disarm"
    /\ FbxVehicleCall("disarm", "fbx_release", FALSE, "fbx_returned", "finally")
    /\ report' = IF k > Len(FbxNames) THEN Append(report, "Vehicles landed and disarmed")
                                      ELSE report
    /\ FbxKeep /\ FbxKeepPaths /\ UNCHANGED fbx_object_name

\* visualize_episode_with_car.py:518: enableApiControl(False)
FbxRelease ==
    /\ pc = "fbx_release"
    /\ FbxVehicleCall("release", "fbx_disarm", TRUE, "fbx_disarm", "finally")
    /\ FbxKeep /\ FbxKeepPaths /\ UNCHANGED <<report, fbx_object_name>>

\* visualize_episode_with_car.py:520-525: "Could not land properly", then
\* reset() inside a bare except.
FbxReset ==
    /\ pc = "fbx_land_failed"
    /\ report' = Append(report, "Could not land properly")
    /\ \E outcome \in Outcomes :
          cmds' = IF outcome = "ok" THEN Append(cmds, <<"reset", "all">>) ELSE cmds
    /\ pc' = "fbx_returned"
    /\ FbxKeep /\ FbxKeepPaths /\ UNCHANGED <<exc, k, fbx_object_name>>

\* main of visualize_episode_with_car.py, line 727: the function returned.
FbxMainReportComplete ==
    /\ pc = "fbx_returned"
    /\ report' = Append(report, "Visualization complete!")
    /\ pc' = "fbx_main_done"
    /\ FbxKeep /\ FbxKeepPaths /\ UNCHANGED <<exc, k, cmds, fbx_object_name>>

\* main of visualize_episode_with_car.py, lines 732-737: the function raised.
FbxMainExcept ==
    /\ pc = "fbx_raised"
    /\ report' = Append(report, IF exc.kind = "KeyboardInterrupt"
                                  THEN "main: interrupted by user" ELSE "main: ERROR")
    /\ pc' = "fbx_main_done"
    /\ FbxKeep /\ FbxKeepPaths /\ UNCHANGED <<exc, k, cmds, fbx_object_name>>

(***************************************************************************)
(* SpecFbx: one call of visualize_episode_with_fbx by its main, over the   *)
(* vehicle lists, frame ranges and simulator outcomes below.               *)
(***************************************************************************)
\* A recording of one frame, and one whose later frame lacks the base key.
FbxTimelines == {ScenarioTimeline,
                 <<FrameAtStart>>,
                 <<FrameAtStart, FrameNoAttacker>>,
                 <<FrameAtStart, FrameNoBase>>}
\* metadata['vehicle_names']: absent from the converter's output (the default
\* of line 183 applies), or given by a caller of the function.
FbxVehicleLists == {<<>>, <<"Defender">>, Vehicles}

InitFbx ==
    /\ pc = "fbx_entry"
    /\ config \in RunConfigs
    /\ frames \in FbxTimelines
    /\ start_frame = 0
    /\ end_frame \in RunEnds
    /\ actual = [v \in VehicleSet |-> Origin]
    /\ path = NoPaths /\ path_visual = NoPaths /\ base_path = <<>>
    /\ settings = <<>> /\ exc = NoExc
    /\ NoTransformCall
    /\ NoRunner
    /\ NoTimelineCall
    /\ NoVelocity
    /\ NoRun
    /\ metadata \in [coordinate_system : {"NED"}, vehicle_names : FbxVehicleLists]
    /\ episode_given = FALSE /\ sample_z_values = <<>>
    /\ caller = "visualize_episode_with_car"
    /\ skip_takeoff \in BOOLEAN
    /\ fbx_object_name = None

NextFbx ==
    \/ FbxClampRange
    \/ FbxConnect
    \/ FbxCheckBase
    \/ FbxFlushMarkers
    \/ FbxEnableApiControl
    \/ FbxArmDisarm
    \/ FbxSkipTakeoff
    \/ FbxTakeoffAsync
    \/ FbxJoinTakeoff
    \/ FbxStabilize
    \/ FbxBuildPaths
    \/ FbxGetPose
    \/ FbxOffsetPaths
    \/ FbxSpawnModel
    \/ FbxPlotPoints
    \/ FbxPlotStrings
    \/ FbxPlotLineStrip
    \/ FbxComputeVelocity
    \/ FbxMoveOnPathAsync
    \/ FbxJoinPath
    \/ FbxFinalPose
    \/ FbxPlaybackComplete
    \/ FbxExcept
    \/ FbxDestroyObject
    \/ FbxLandAsync
    \/ FbxJoinLand
    \/ FbxLandSleep
    \/ FbxDisarm
    \/ FbxRelease
    \/ FbxReset
    \/ FbxMainReportComplete
    \/ FbxMainExcept

SpecFbx == InitFbx /\ [][NextFbx]_vars

\* The selected frame range holds a frame, and every frame of it holds the
\* defender, attacker and base keys.
FbxRecordingValid ==
    LET ef == EpisodeFrames(frames, start_frame, end_frame)
    IN  Len(ef) > 0 /\ \A i \in 1..Len(ef) : HasAgents(ef[i]) /\ "base" \in DOMAIN ef[i]

\* No simulator call of the run failed or was interrupted.
FbxSimulatorQuiet == exc.kind \notin {"RPCError", "KeyboardInterrupt"}

\* C12: a run of visualize_episode_with_fbx with an empty vehicle list, on a
\* valid recording and with no simulator failure, ends with the outcome
\* Completed (no error reported) and issues no follow-path command.
C12_ZeroAgentsComplete ==
    (Len(FbxNames) = 0 /\ pc = "fbx_returned" /\ FbxRecordingValid /\ FbxSimulatorQuiet)
        => (Outcome = "Completed" /\ Issued("moveOnPath") = {})

\* How many times the command op was issued to vehicle v.
IssuedCount(op, v) == Cardinality({i \in 1..Len(cmds) : cmds[i] = <<op, v>>})

\* C26: once the dispatch loop of visualize_episode_with_fbx has finished,
\* every listed vehicle whose flight path holds at least one waypoint has
\* been issued exactly one follow-path command, and no vehicle more than one.
C26_OneFollowPathEach ==
    (pc = "fbx_join") =>
        /\ \A i \in 1..Len(FbxNames) :
              Len(path[FbxNames[i]]) >= 1 => IssuedCount("moveOnPath", FbxNames[i]) = 1
        /\ \A v \in VehicleSet : IssuedCount("moveOnPath", v) <= 1

(***************************************************************************)
(* SpecTimeline: a waypoint file is converted by                           *)
(* convert_waypoints_to_episode, the episode it wrote is read back by      *)
(* load_episode, and get_frame_timing is asked for the wait of a frame.    *)
(* A waypoint is a function from the keys it holds to their values: "t",   *)
(* "defender", "attacker", "base" (new format) or "description",           *)
(* "position" (old format).  A description is modelled by what             *)
(* extract_time_from_description finds in it: <<>> when it holds no        *)
(* "t=...s", <<t>> when it holds the time t.  A frame of the episode the   *)
(* converter writes holds "t" next to the positions.                       *)
(***************************************************************************)
CmPerMetre == 100

\* convert_position (convert_waypoints_to_episode.py:81-87)
convert_position(pos, units) ==
    IF units = "centimeters"
      THEN <<pos[1] \div CmPerMetre, pos[2] \div CmPerMetre, pos[3] \div CmPerMetre>>
      ELSE pos

\* extract_time_from_description (convert_waypoints_to_episode.py:21-26)
extract_time_from_description(description) ==
    IF description = <<>> THEN 0 ELSE description[1]

\* waypoint.get(key, default)
GetOr(w, key, default) == IF key \in DOMAIN w THEN w[key] ELSE default

\* The key a waypoint lacks that the loop body reads
\* (convert_waypoints_to_episode.py:90-122), or "none".
MissingKey(w) ==
    IF "defender" \in DOMAIN w /\ "attacker" \in DOMAIN w
      THEN (IF "base" \in DOMAIN w THEN "none" ELSE "base")
      ELSE (IF "position" \in DOMAIN w THEN "none" ELSE "position")

\* The frame the loop body builds for one waypoint
\* (convert_waypoints_to_episode.py:76-140).
FrameOfWaypoint(w, units) ==
    IF "defender" \in DOMAIN w /\ "attacker" \in DOMAIN w
      THEN [t |-> GetOr(w, "t", 0),
            defender |-> convert_position(w["defender"], units),
            attacker |-> convert_position(w["attacker"], units),
            base |-> convert_position(w["base"], units)]
      ELSE [t |-> extract_time_from_description(GetOr(w, "description", <<>>)),
            defender |-> convert_position(w["position"], units),
            attacker |-> <<-5, 5, 3>>,
            base |-> <<0, 0, 0>>]

\* convert_waypoints_to_episode (convert_waypoints_to_episode.py:42-168): the
\* frames it writes, in the order of the waypoints, or the exception it
\* raises before anything is written.
convert_waypoints_to_episode(data) ==
    LET waypoints == data.waypoints
        bad == {i \in 1..Len(waypoints) : MissingKey(waypoints[i]) # "none"}
    IN  IF Len(waypoints) = 0 THEN [exc |-> "ValueError", frames |-> <<>>]
        ELSE IF bad # {} THEN [exc |-> "KeyError", frames |-> <<>>]
        ELSE [exc |-> "none",
              frames |-> [i \in 1..Len(waypoints) |-> FrameOfWaypoint(waypoints[i], data.units)]]

\* load_episode (visualize_episode.py:57-75) reads frames[-1]['t'] and
\* returns the file's content as it is.
load_episode_raises(fr) ==
    IF Len(fr) = 0 THEN "IndexError"
    ELSE IF "t" \notin DOMAIN fr[Len(fr)] THEN "KeyError"
    ELSE "none"

QMax(a, b) == IF QLess(a, b) THEN b ELSE a
DefaultWait == <<1, 10>>
MinWait == <<1, 1000>>

\* get_frame_timing (config.py:128-154); frame_idx counts from 0.
get_frame_timing_no_floor(fr, idx, speed) ==
    IF idx >= Len(fr) - 1 THEN DefaultWait
    ELSE QDiv(QInt(fr[idx + 2]["t"] - fr[idx + 1]["t"]), speed)
get_frame_timing(fr, idx, speed) ==
    IF idx >= Len(fr) - 1 THEN DefaultWait
    ELSE LET current_t == fr[idx + 1]["t"]
             next_t == fr[idx + 2]["t"]
             dt == next_t - current_t
             adjusted_dt == QDiv(QInt(dt), speed)
         IN  QMax(adjusted_dt, MinWait)

MaxWaypointsIn == 3     \* a drawn waypoint file holds at most MaxWaypointsIn waypoints
MaxTime == 2            \* timestamps are drawn from 0..MaxTime

WaypointPositions == {<<0, 0, 0>>, <<100, 0, 200>>}
NewWaypoints ==
    {[t |-> t, defender |-> p, attacker |-> <<0, 0, 0>>, base |-> <<0, 0, 0>>] :
        t \in 0..MaxTime, p \in WaypointPositions}
    \cup {[defender |-> <<0, 0, 0>>, attacker |-> <<0, 0, 0>>, base |-> <<0, 0, 0>>],
          [t |-> 1, defender |-> <<0, 0, 0>>, attacker |-> <<0, 0, 0>>]}
OldWaypoints ==
    {[description |-> d, position |-> <<100, 0, 200>>] : d \in {<<>>, <<1>>, <<MaxTime>>}}
Waypoints == NewWaypoints \cup OldWaypoints
RECURSIVE WaypointListsOfLen(_)
WaypointListsOfLen(n) ==
    IF n = 0 THEN {<<>>}
    ELSE {Append(l, w) : l \in WaypointListsOfLen(n - 1), w \in Waypoints}
WaypointFiles ==
    [waypoints : UNION {WaypointListsOfLen(n) : n \in 0..MaxWaypointsIn},
     units : {"centimeters", "meters"}]

\* VisualizationConfig as the class defines it (config.py:27-29).
DefaultConfig == [SCALE_FACTOR |-> 1, INVERT_Z |-> FALSE, Z_OFFSET |-> 0]

InitTimeline ==
    /\ pc = "cv_input"
    /\ waypoint_data \in WaypointFiles
    /\ frame_idx = 0 /\ wait = <<>>
    /\ config = DefaultConfig
    /\ frames = <<>> /\ start_frame = 0 /\ end_frame = None
    /\ actual = [v \in VehicleSet |-> Origin]
    /\ path = NoPaths /\ path_visual = NoPaths /\ base_path = <<>>
    /\ settings = <<>> /\ exc = NoExc
    /\ NoTransformCall
    /\ NoRunner
    /\ NoVelocity
    /\ NoRun
    /\ NoAutoConfigure
    /\ NoCaller

TimelineKeep ==
    UNCHANGED <<config, waypoint_data, runnerVars, transformVars, callVars, start_frame, end_frame, actual,
                path, path_visual, base_path, settings, velocities, runVars>>

ConvertWaypoints ==
    /\ pc = "cv_input"
    /\ LET r == convert_waypoints_to_episode(waypoint_data)
       IN  /\ frames' = r.frames
           /\ IF r.exc = "none" THEN pc' = "cv_written" /\ exc' = exc
                                ELSE pc' = "cv_raised" /\ exc' = Raised(r.exc)
    /\ TimelineKeep /\ UNCHANGED <<frame_idx, wait, playback_speed>>

LoadEpisode ==
    /\ pc = "cv_written"
    /\ LET e == load_episode_raises(frames)
       IN  IF e = "none" THEN pc' = "loaded" /\ exc' = exc
                         ELSE pc' = "load_raised" /\ exc' = Raised(e)
    /\ TimelineKeep /\ UNCHANGED <<frames, frame_idx, wait, playback_speed>>

GetFrameTiming ==
    /\ pc = "loaded"
    /\ \E idx \in 0..(Len(frames) + 1), speed \in PlaybackSpeeds :
          /\ frame_idx' = idx
          /\ playback_speed' = speed
          /\ wait' = get_frame_timing(frames, idx, speed)
    /\ pc' = "timed"
    /\ TimelineKeep /\ UNCHANGED <<frames, exc>>

NextTimeline == ConvertWaypoints \/ LoadEpisode \/ GetFrameTiming

SpecTimeline == InitTimeline /\ [][NextTimeline]_vars

\* The Timeline invariant: at least one frame, timestamps in non-decreasing order.
TimelineInvariant(fr) ==
    /\ Len(fr) >= 1
    /\ \A i \in 1..(Len(fr) - 1) : fr[i]["t"] <= fr[i + 1]["t"]

\* C22: every Timeline that convert_waypoints_to_episode wrote and
\* load_episode returned has at least one frame and timestamps in
\* non-decreasing order.
C22_TimelineInvariant ==
    (pc \in {"loaded", "timed"}) => TimelineInvariant(frames)

\* C28: get_frame_timing returns the default wait 0.1 for the last frame and
\* for every index beyond it, and otherwise the gap to the next timestamp
\* divided by the playback speed, raised to 0.001 when it is smaller; the
\* wait is at least 0.001 whatever the order of the timestamps.
C28_FrameTiming ==
    pc = "timed" =>
        /\ frame_idx >= Len(frames) - 1 => QEq(wait, <<1, 10>>)
        /\ frame_idx < Len(frames) - 1 =>
              LET gap == QDiv(QInt(frames[frame_idx + 2]["t"] - frames[frame_idx + 1]["t"]),
                              playback_speed)
              IN  IF QLess(gap, <<1, 1000>>) THEN QEq(wait, <<1, 1000>>) ELSE QEq(wait, gap)
        /\ ~QLess(wait, <<1, 1000>>)

\* The wait of a frame whose successor carries an earlier timestamp.
C28_Witness ==
    /\ pc = "timed"
    /\ Len(frames) = 3
    /\ frame_idx = 1
    /\ frames[3]["t"] < frames[2]["t"]
    /\ playback_speed = <<2, 1>>
    /\ wait = <<1, 1000>>

(***************************************************************************)
(* SpecLabels: the run of visualize_episode on the three-frame scenario,   *)
(* with the line the run prints after each text label ("[text shown]" or   *)
(* "[text not supported]") kept in report.                                 *)
(***************************************************************************)
PlotStringsLogged_error_raised ==
    /\ pc = "plot_strings"
    /\ \E outcome \in Outcomes :
          IF outcome = "ok"
            THEN /\ exc' = exc
                 /\ report' = Append(report, "text shown")
                 /\ IF k < Len(Markers) THEN k' = k + 1 /\ pc' = "plot_points"
                                        ELSE k' = 1 /\ pc' = "plot_lines"
            ELSE /\ Caught(ExcOf(outcome)) /\ k' = 1
                 /\ report' = IF outcome = "error" THEN Append(report, "text not supported")
                                                   ELSE report
    /\ KeepEpisode /\ KeepLoop /\ UNCHANGED cmds

\* visualize_episode.py:343-353, 369-379, 395-405: simPlotStrings of marker k
\* and the print that follows it, in the try or in the "except Exception".
PlotStringsLogged ==
    /\ pc = "plot_strings"
    /\ \E outcome \in Outcomes :
          IF outcome = "interrupt"
            THEN Caught(ExcOf(outcome)) /\ k' = 1 /\ report' = report
            ELSE /\ exc' = exc
                 /\ report' = Append(report, IF outcome = "ok" THEN "text shown"
                                                               ELSE "text not supported")
                 /\ IF k < Len(Markers) THEN k' = k + 1 /\ pc' = "plot_points"
                                        ELSE k' = 1 /\ pc' = "plot_lines"
    /\ KeepEpisode /\ KeepLoop /\ UNCHANGED cmds

InitLabels ==
    /\ pc = "entry"
    /\ config = DefaultConfig
    /\ frames = ScenarioTimeline
    /\ start_frame = 0
    /\ end_frame = None
    /\ actual = [v \in VehicleSet |-> Origin]
    /\ path = NoPaths /\ path_visual = NoPaths /\ base_path = <<>>
    /\ settings = <<>> /\ exc = NoExc
    /\ NoTransformCall
    /\ NoRunner
    /\ NoTimelineCall
    /\ NoVelocity
    /\ NoRun
    /\ NoAutoConfigure
    /\ caller \in Callers /\ skip_takeoff = FALSE /\ fbx_object_name = None

NextLabels == NextButLabels \/ PlotStringsLogged

SpecLabels == InitLabels /\ [][NextLabels]_vars

\* How many text labels the run has reported as not drawn.
LabelsFailed == Cardinality({i \in 1..Len(report) : report[i] = "text not supported"})

\* C25: a step in which the drawing of a text label fails changes nothing
\* but the line printed about the label: it issues and withdraws no command,
\* raises nothing, leaves paths, poses and monitoring state as they were, and
\* continues with the step that follows a label that was drawn.
C25_LabelFailureHarmless ==
    [][LabelsFailed' > LabelsFailed =>
          /\ exc' = exc
          /\ cmds' = cmds
          /\ pc' = (IF k < Len(Markers) THEN "plot_points" ELSE "plot_lines")
          /\ k' = (IF k < Len(Markers) THEN k + 1 ELSE 1)
          /\ UNCHANGED <<actual, path, path_visual, base_path, velocities, iteration, trajectory>>
      ]_vars

\* A run in which all three labels failed flew both vehicles and completed.
C25_Witness ==
    /\ LabelsFailed = Len(Markers)
    /\ pc = "returned"
    /\ cmds[Len(cmds)] = <<"release", "Attacker">>
    /\ Issued("moveOnPath") = VehicleSet
    /\ Outcome = "Completed"

(***************************************************************************)
(* SpecTrajectory: one run of main of run_trajectory_auto.py               *)
(* (src/PythonClient/airsim_single_agent), call by call.  The script       *)
(* flies one drone, the simulator's default vehicle "".  A waypoint of the *)
(* trajectory file is a record of its id and its position in centimetres.  *)
(* cmds holds the calls the simulator accepted, in order; a move carries   *)
(* the list index of its waypoint as a third component.  k is the 1-based  *)
(* position in the list of waypoints, or in the calls of setup_drone.      *)
(***************************************************************************)
MaxTrajectoryLen == 3     \* a drawn trajectory file holds at most MaxTrajectoryLen waypoints

TrajectoryPositions == {<<0, 0, -200>>, <<100, 0, -200>>}
RECURSIVE TrajectoriesOfLen(_)
TrajectoriesOfLen(n) ==
    IF n = 0 THEN {<<>>}
    ELSE {Append(l, [id |-> n - 1, position |-> p]) :
              l \in TrajectoriesOfLen(n - 1), p \in TrajectoryPositions}
TrajectoryFiles ==
    [waypoints : UNION {TrajectoriesOfLen(n) : n \in 0..MaxTrajectoryLen}, velocity : {5}]

\* The calls of setup_drone (run_trajectory_auto.py:45-54), in order.
SetupCalls == <<"reset", "enableApiControl", "armDisarm", "takeoff", "moveToZ">>

InitTrajectory ==
    /\ pc = "tr_connect"
    /\ config = DefaultConfig
    /\ NoTimelineCall
    /\ NoRunner
    /\ NoTransformCall
    /\ NoEpisode
    /\ NoVelocity
    /\ NoRun
    /\ NoAutoConfigure
    /\ NoCaller

TrKeep ==
    UNCHANGED <<config, timelineVars, frame_count, base_position, transformVars, callVars,
                inputVars, actual, path, path_visual, base_path, settings, velocityVars,
                iteration, trajectory>>

\* An exception raised in the try body of main (run_trajectory_auto.py:184-204):
\* both handlers print and call runner.land_and_disarm().
TrMessage(e) ==
    IF e = "KeyboardInterrupt" THEN "Trajectory interrupted by user" ELSE "Error"
TrRaise(e) ==
    /\ exc' = Raised(e)
    /\ report' = Append(report, TrMessage(e))
    /\ pc' = "tr_land"

\* An exception raised by land_and_disarm: in the try body it reaches the
\* handlers of main, in a handler it is swallowed by the inner try
\* (run_trajectory_auto.py:193-196, 201-204).
TrLandRaise(e) ==
    IF exc.kind = "none"
      THEN TrRaise(e)
      ELSE pc' = "tr_exit" /\ UNCHANGED <<exc, report>>

\* runner = TrajectoryRunner() (run_trajectory_auto.py:185, 17-25).  When the
\* constructor raises, runner is unbound and the handler's land_and_disarm
\* is a NameError that the inner try swallows.
TrConnect ==
    /\ pc = "tr_connect"
    /\ \E outcome \in Outcomes :
          IF outcome = "ok"
            THEN /\ pc' = "tr_load"
                 /\ cmds' = Append(cmds, <<"confirmConnection", "">>)
                 /\ UNCHANGED <<exc, report>>
            ELSE /\ exc' = Raised(ExcOf(outcome))
                 /\ report' = Append(report, TrMessage(ExcOf(outcome)))
                 /\ pc' = "tr_exit"
                 /\ UNCHANGED cmds
    /\ TrKeep /\ UNCHANGED <<k, trajectory_data, positions_log, has_collided>>

\* load_trajectory (run_trajectory_auto.py:27-40)
TrLoad ==
    /\ pc = "tr_load"
    /\ \/ /\ \E file \in TrajectoryFiles : trajectory_data' = file
          /\ pc' = "tr_setup" /\ k' = 1
          /\ UNCHANGED <<exc, report>>
       \/ /\ TrRaise("FileNotFoundError")
          /\ UNCHANGED <<k, trajectory_data>>
    /\ TrKeep /\ UNCHANGED <<cmds, positions_log, has_collided>>

\* setup_drone (run_trajectory_auto.py:42-57), one call per step; the first
\* waypoint is read between armDisarm and takeoffAsync.
TrSetupCall ==
    /\ pc = "tr_setup"
    /\ IF SetupCalls[k] = "takeoff" /\ Len(trajectory_data.waypoints) = 0
         THEN TrRaise("IndexError") /\ UNCHANGED <<k, cmds>>
         ELSE \E outcome \in Outcomes :
                IF outcome = "ok"
                  THEN /\ cmds' = Append(cmds, <<SetupCalls[k], "">>)
                       /\ IF k < Len(SetupCalls)
                            THEN pc' = pc /\ k' = k + 1
                            ELSE pc' = "tr_move" /\ k' = 1
                       /\ UNCHANGED <<exc, report>>
                  ELSE TrRaise(ExcOf(outcome)) /\ UNCHANGED <<k, cmds>>
    /\ TrKeep /\ UNCHANGED <<trajectory_data, positions_log, has_collided>>

\* The metres run_trajectory passes for a waypoint (run_trajectory_auto.py:73-75).
TargetOf(wp) ==
    <<wp.position[1] \div CmPerMetre, wp.position[2] \div CmPerMetre,
      wp.position[3] \div CmPerMetre>>

\* run_trajectory, moveToPositionAsync(...).join() (run_trajectory_auto.py:69-86)
TrMove ==
    /\ pc = "tr_move"
    /\ \E outcome \in Outcomes :
          IF outcome = "ok"
            THEN /\ cmds' = Append(cmds, <<"moveToPosition", "", k - 1>>)
                 /\ pc' = "tr_log"
                 /\ UNCHANGED <<exc, report>>
            ELSE TrRaise(ExcOf(outcome)) /\ UNCHANGED cmds
    /\ TrKeep /\ UNCHANGED <<k, trajectory_data, positions_log, has_collided>>

\* run_trajectory, simGetVehiclePose and positions_log.append
\* (run_trajectory_auto.py:88-107)
TrLogPosition ==
    /\ pc = "tr_log"
    /\ \E outcome \in Outcomes :
          IF outcome = "ok"
            THEN /\ positions_log' = Append(positions_log,
                        [waypoint_id |-> trajectory_data.waypoints[k].id,
                         target |-> TargetOf(trajectory_data.waypoints[k])])
                 /\ pc' = "tr_collision"
                 /\ UNCHANGED <<exc, report>>
            ELSE TrRaise(ExcOf(outcome)) /\ UNCHANGED positions_log
    /\ TrKeep /\ UNCHANGED <<k, cmds, trajectory_data, has_collided>>

\* run_trajectory, simGetCollisionInfo, break on a collision, time.sleep and
\* the end of the loop (run_trajectory_auto.py:109-126)
TrCheckCollision_no_break ==
    /\ pc = "tr_collision"
    /\ \E outcome \in Outcomes :
          IF outcome = "ok"
            THEN /\ \E collided \in BOOLEAN : has_collided' = collided
                 /\ IF k = Len(trajectory_data.waypoints)
                      THEN /\ pc' = "tr_save"
                           /\ report' = Append(report, "TRAJECTORY COMPLETE")
                           /\ k' = k
                      ELSE pc' = "tr_move" /\ k' = k + 1 /\ UNCHANGED report
                 /\ UNCHANGED exc
            ELSE TrRaise(ExcOf(outcome)) /\ UNCHANGED <<k, has_collided>>
    /\ TrKeep /\ UNCHANGED <<cmds, trajectory_data, positions_log>>
TrCheckCollision ==
    /\ pc = "tr_collision"
    /\ \E outcome \in Outcomes :
          IF outcome = "ok"
            THEN /\ \E collided \in BOOLEAN : has_collided' = collided
                 /\ IF has_collided' \/ k = Len(trajectory_data.waypoints)
                      THEN /\ pc' = "tr_save"
                           /\ report' = Append(report, "TRAJECTORY COMPLETE")
                           /\ k' = k
                      ELSE pc' = "tr_move" /\ k' = k + 1 /\ UNCHANGED report
                 /\ UNCHANGED exc
            ELSE TrRaise(ExcOf(outcome)) /\ UNCHANGED <<k, has_collided>>
    /\ TrKeep /\ UNCHANGED <<cmds, trajectory_data, positions_log>>

\* run_trajectory, statistics and save_log (run_trajectory_auto.py:128-165);
\* the log is written when it holds an entry, and writing it can fail.
TrSaveLog ==
    /\ pc = "tr_save"
    /\ IF Len(positions_log) > 0
         THEN \/ /\ report' = Append(report, "Log saved")
                 /\ pc' = "tr_land" /\ UNCHANGED exc
              \/ TrRaise("OSError")
         ELSE pc' = "tr_land" /\ UNCHANGED <<exc, report>>
    /\ TrKeep /\ UNCHANGED <<k, cmds, trajectory_data, positions_log, has_collided>>

\* land_and_disarm, print and landAsync() (run_trajectory_auto.py:167-170),
\* called at line 189 of the try body or at 194 / 202 of a handler.
TrLandIssue ==
    /\ pc = "tr_land"
    /\ \E outcome \in Outcomes :
          IF outcome = "ok"
            THEN /\ cmds' = Append(cmds, <<"land", "">>)
                 /\ report' = Append(report, "Landing...")
                 /\ pc' = "tr_land_join"
                 /\ UNCHANGED exc
            ELSE /\ IF exc.kind = "none"
                      THEN /\ exc' = Raised(ExcOf(outcome))
                           /\ report' = report \o <<"Landing...", TrMessage(ExcOf(outcome))>>
                           /\ pc' = "tr_land"
                      ELSE /\ pc' = "tr_exit"
                           /\ report' = Append(report, "Landing...")
                           /\ UNCHANGED exc
                 /\ UNCHANGED cmds
    /\ TrKeep /\ UNCHANGED <<k, trajectory_data, positions_log, has_collided>>

\* land_and_disarm, .join() of the landing (run_trajectory_auto.py:170)
TrLandJoin ==
    /\ pc = "tr_land_join"
    /\ \E outcome \in Outcomes :
          IF outcome = "ok"
            THEN pc' = "tr_disarm" /\ UNCHANGED <<exc, report>>
            ELSE TrLandRaise(ExcOf(outcome))
    /\ TrKeep /\ UNCHANGED <<k, cmds, trajectory_data, positions_log, has_collided>>

\* land_and_disarm, armDisarm(False) (run_trajectory_auto.py:171)
TrDisarm ==
    /\ pc = "tr_disarm"
    /\ \E outcome \in Outcomes :
          IF outcome = "ok"
            THEN /\ cmds' = Append(cmds, <<"disarm", "">>)
                 /\ pc' = "tr_release" /\ UNCHANGED <<exc, report>>
            ELSE TrLandRaise(ExcOf(outcome)) /\ UNCHANGED cmds
    /\ TrKeep /\ UNCHANGED <<k, trajectory_data, positions_log, has_collided>>

\* land_and_disarm, enableApiControl(False) and the return to main
\* (run_trajectory_auto.py:172-173)
TrRelease ==
    /\ pc = "tr_release"
    /\ \E outcome \in Outcomes :
          IF outcome = "ok"
            THEN /\ cmds' = Append(cmds, <<"releaseApiControl", "">>)
                 /\ report' = Append(report, "Drone landed and disarmed")
                 /\ pc' = "tr_exit" /\ UNCHANGED exc
            ELSE TrLandRaise(ExcOf(outcome)) /\ UNCHANGED cmds
    /\ TrKeep /\ UNCHANGED <<k, trajectory_data, positions_log, has_collided>>

NextTrajectory ==
    \/ TrConnect
    \/ TrLoad
    \/ TrSetupCall
    \/ TrMove
    \/ TrLogPosition
    \/ TrCheckCollision
    \/ TrSaveLog
    \/ TrLandIssue
    \/ TrLandJoin
    \/ TrDisarm
    \/ TrRelease

SpecTrajectory == InitTrajectory /\ [][NextTrajectory]_vars

\* The drone has been armed by setup_drone.
Armed == IssuedCount("armDisarm", "") >= 1
\* How many times land_and_disarm has been entered: it prints on entry.
LandInvocations == Cardinality({i \in 1..Len(report) : report[i] = "Landing..."})

\* C32: in a run of main of run_trajectory_auto.py, once the drone has been
\* armed, land_and_disarm is invoked before main returns, on every exit path
\* (normal end, collision, interrupt, error), and the land command is issued
\* at most once in the run, also when land_and_disarm itself raises or is
\* interrupted.
C32_LandOnceOnEveryExit ==
    /\ (pc = "tr_exit" /\ Armed) => LandInvocations >= 1
    /\ IssuedCount("land", "") <= 1

\* The list indices of the waypoints the accepted moves went to, in order.
MovedTo ==
    LET moves == SelectSeq(cmds, LAMBDA c : c[1] = "moveToPosition")
    IN  [j \in 1..Len(moves) |-> moves[j][3]]

\* The log holds the entries of the first n waypoints of the file.
LogHoldsFirst(n) ==
    /\ Len(positions_log) = n
    /\ \A j \in 1..n :
          /\ positions_log[j].waypoint_id = trajectory_data.waypoints[j].id
          /\ positions_log[j].target = TargetOf(trajectory_data.waypoints[j])

\* C33: run_trajectory visits the waypoints in list order, one blocking move
\* per waypoint and one log entry after it: the moves went to the waypoints
\* 0, 1, 2, ... and the log holds the entry of every waypoint moved to but
\* possibly the last; once a collision has been detected at waypoint k no
\* further move is issued and the log holds exactly the entries of the
\* waypoints 0..k; the log is never longer than the list of waypoints.
C33_WaypointsInOrder ==
    /\ [](/\ \A j \in 1..Len(MovedTo) : MovedTo[j] = j - 1
          /\ trajectory_data # None =>
                /\ Len(positions_log) <= Len(trajectory_data.waypoints)
                /\ Len(MovedTo) - Len(positions_log) \in {0, 1}
                /\ LogHoldsFirst(Len(positions_log))
          /\ has_collided => (Len(MovedTo) = k /\ LogHoldsFirst(k)))
    /\ [][has_collided => (has_collided' /\ MovedTo' = MovedTo
                              /\ positions_log' = positions_log)]_vars

\* A collision at a waypoint before the last ended the flight.
C33_Witness ==
    /\ pc = "tr_exit" /\ has_collided
    /\ Len(positions_log) >= 1
    /\ Len(positions_log) < Len(trajectory_data.waypoints)

(***************************************************************************)
(* SpecRunner: a MultiAgentRunner (multi_agent_runner.py) on which         *)
(* move_to_frame and reset are called in any order.  Each call is one      *)
(* step; the simulator call at which it raises, if any, is drawn.          *)
(* trajectory holds defender_trajectory and attacker_trajectory, exc the   *)
(* exception the last call raised (none when it returned).                 *)
(***************************************************************************)
MaxMoves == 10              \* move_to_frame is called while a trajectory holds fewer points
TrajectoryDrawPeriod == 10
ShowTrajectories == TRUE
ShowVehicleMarkers == TRUE

\* The simulator calls of move_to_frame at which it can raise, with how far
\* the call got: 0 nothing stored, 1 base_position stored, 2 moves issued,
\* 3 trajectory points appended.
MoveStage ==
    [keys |-> 0, base_points |-> 1, move |-> 2, join |-> 2, lines |-> 3, markers |-> 3,
     none |-> 4]
MoveSteps == DOMAIN MoveStage

\* move_to_frame (multi_agent_runner.py:100-159) on the runner self, raising
\* at the step failing ("none": it returns).  reached tells whether the
\* call gets to that step at all.
move_to_frame(self, frame_data, wait_arg, failing) ==
    LET present == {"defender", "attacker", "base"} \subseteq DOMAIN frame_data
        first == self.base_position = None
        n == Len(self.trajectory["Defender"]) + 1
        stage == MoveStage[failing]
        reached ==
            CASE failing = "keys" -> ~present
              [] failing = "base_points" -> present /\ first
              [] failing = "join" -> present /\ wait_arg
              [] failing = "lines" ->
                    present /\ ShowTrajectories /\ n % TrajectoryDrawPeriod = 0 /\ n > 1
              [] failing = "markers" -> present /\ ShowVehicleMarkers
              [] OTHER -> present
    IN  [reached |-> reached,
         base_position |->
            IF reached /\ stage >= 1 /\ first
              THEN <<transform_position(frame_data["base"], config)>>
              ELSE self.base_position,
         trajectory |->
            IF reached /\ stage >= 3
              THEN [v \in VehicleSet |->
                      Append(self.trajectory[v],
                             transform_position(frame_data[KeyOf(v)], config))]
              ELSE self.trajectory,
         frame_count |->
            IF reached /\ stage = 4 THEN self.frame_count + 1 ELSE self.frame_count]

RunnerFrames ==
    {[defender |-> <<1, 0, -1>>, attacker |-> <<0, 0, 0>>, base |-> <<1, 1, 0>>],
     [defender |-> <<0, 0, -1>>, attacker |-> <<0, 0, 0>>]}

InitRunner ==
    /\ pc = "runner"
    /\ config = DefaultConfig
    /\ NoTimelineCall
    /\ NoRunner
    /\ NoTransformCall
    /\ NoEpisode
    /\ NoVelocity
    /\ NoRun
    /\ NoAutoConfigure
    /\ NoCaller

RunnerKeep ==
    UNCHANGED <<pc, config, timelineVars, trajectory_data, positions_log, has_collided,
                transformVars, callVars, inputVars, actual, path, path_visual, base_path,
                settings, velocityVars, k, cmds, iteration, report>>

\* The exception a call raises at a step.
RunnerExc(failing, outcome) ==
    IF failing = "none" THEN NoExc
    ELSE [kind |-> IF failing = "keys" THEN "KeyError" ELSE ExcOf(outcome), at |-> failing]

MoveToFrame ==
    /\ Len(trajectory["Defender"]) < MaxMoves
    /\ \E frame_data \in RunnerFrames, wait_arg \in BOOLEAN, failing \in MoveSteps,
          outcome \in {"error", "interrupt"} :
          LET self == [base_position |-> base_position, trajectory |-> trajectory,
                       frame_count |-> frame_count]
              r == move_to_frame(self, frame_data, wait_arg, failing)
          IN  /\ r.reached
              /\ base_position' = r.base_position
              /\ trajectory' = r.trajectory
              /\ frame_count' = r.frame_count
              /\ exc' = RunnerExc(failing, outcome)
    /\ RunnerKeep

\* reset (multi_agent_runner.py:335-343): client.reset() can raise.
ResetRunner ==
    /\ \E outcome \in Outcomes :
          IF outcome = "ok"
            THEN /\ trajectory' = NoPaths
                 /\ base_position' = None
                 /\ frame_count' = 0
                 /\ exc' = NoExc
            ELSE /\ exc' = [kind |-> ExcOf(outcome), at |-> "reset"]
                 /\ UNCHANGED <<trajectory, base_position, frame_count>>
    /\ RunnerKeep

NextRunner == MoveToFrame \/ ResetRunner

SpecRunner == InitRunner /\ [][NextRunner]_vars

\* C34: after any sequence of move_to_frame and reset calls, including calls
\* in which a move, join or drawing command raises, frame_count equals the
\* length of defender_trajectory and of attacker_trajectory; a reset that
\* returns leaves the two trajectories empty, frame_count 0 and
\* base_position None.
C34_CountMatchesTrajectories ==
    /\ [](/\ frame_count = Len(trajectory["Defender"])
          /\ frame_count = Len(trajectory["Attacker"]))
    /\ [][(exc'.at # "reset" /\ ResetRunner) =>
             (trajectory' = NoPaths /\ frame_count' = 0 /\ base_position' = None)]_vars

(***************************************************************************)
(* SpecAdaptive: the adaptive velocity computation of                      *)
(* visualize_episode_with_fbx on the drawn paths and playback speeds of    *)
(* SpecVelocity, for every list of vehicle names.                          *)
(***************************************************************************)
\* The values visualize_episode_with_car.py:409-418 divides by: playback_speed,
\* base_velocity, and estimated_duration for a path of positive length.
FbxDivisors(names, paths, speed) ==
    LET listed == {names[i] : i \in 1..Len(names)}
        path_lengths == [v \in listed |-> calculate_path_length(paths[v])]
        base_velocity == FbxBaseVelocity(speed)
        max_path_length == IF listed = {} THEN 1
                           ELSE MaxOf({path_lengths[v] : v \in listed})
        estimated_duration == QDiv(QInt(max_path_length), base_velocity)
    IN  {speed, base_velocity}
            \cup {estimated_duration : v \in {w \in listed : path_lengths[w] > 0}}

VelocityFbxListed ==
    /\ pc = "vel_input"
    /\ \E names \in FbxVehicleLists :
          /\ metadata' = [metadata EXCEPT !.vehicle_names = names]
          /\ velocities' = FbxVelocitiesOf(names, path_visual, playback_speed)
    /\ pc' = "vel_listed"
    /\ UNCHANGED <<config, timelineVars, runnerVars, transformVars, episode_given,
                   sample_z_values, caller, skip_takeoff, fbx_object_name, inputVars,
                   pathVars, playback_speed, runVars>>

NextAdaptive == VelocityFbxListed

SpecAdaptive == InitVelocity /\ [][NextAdaptive]_vars

QZero(q) == q[1] = 0 \/ q[2] = 0
\* The listed vehicles the dispatch loop sends a follow-path command to
\* (visualize_episode_with_car.py:436-437).
Dispatched == {v \in DOMAIN velocities : Len(path[v]) > 1}

\* C35: for every list of vehicles, every combination of path lengths and
\* every positive playback speed, the adaptive velocity computation divides
\* by no zero and the velocity commanded to every dispatched vehicle is
\* strictly positive.
C35_VelocityPositive ==
    (pc = "vel_listed") =>
        /\ \A d \in FbxDivisors(FbxNames, path_visual, playback_speed) : ~QZero(d)
        /\ \A v \in Dispatched : velocities[v][2] # 0 /\ QLess(<<0, 1>>, velocities[v])

\* A single listed vehicle that does not move over its two or more waypoints
\* is dispatched at the base velocity.
C35_Witness ==
    /\ pc = "vel_listed"
    /\ FbxNames = <<"Defender">>
    /\ Dispatched = {"Defender"}
    /\ FlownLength("Defender") = 0
    /\ QEq(velocities["Defender"], QMul(FbxBaseVelocity(playback_speed), <<11, 10>>))
====
